---------------------------- MODULE Spec2Model ----------------------------
(***************************************************************************)
(* Model of the my-go-next-todo backend: the JWT token service             *)
(* (internal/auth/jwt.go), the account directory and authentication        *)
(* service (internal/auth/repository.go, auth service), and the            *)
(* ownership-scoped todo service and repository (internal/todo).           *)
(*                                                                         *)
(* Go errors are modelled as chains: a sequence of strings whose head is   *)
(* the outermost fmt.Errorf("...: %w") message and whose last element is   *)
(* the innermost sentinel.  The nil error is the empty sequence.           *)
(***************************************************************************)
EXTENDS Integers, Sequences, FiniteSets, TLC

VARIABLES
    now,        \* wall clock, in ticks of 1/TicksPerSecond seconds
    tok,        \* the token string a client holds, with how it was issued
    vcall,      \* the last call made on a JWTService
    users,      \* rows of the users table, by id
    nextUserID, \* the users_id_seq sequence
    acall,      \* the last call made on the auth service / user repository
    todos,      \* rows of the todos table, by id
    nextID,     \* the todos_id_seq sequence
    tcall,      \* the last call made on the todo service / repository
    reqs,       \* the requests running concurrently on the todo service
    stamps      \* created_at and updated_at of the rows of the todos table, by id

tokenVars == <<tok, vcall>>
authVars == <<users, nextUserID, acall>>
todoVars == <<todos, nextID, tcall, reqs, stamps>>
vars == <<now, tok, vcall, users, nextUserID, acall, todos, nextID, tcall, reqs,
          stamps>>

-----------------------------------------------------------------------------
(* Go errors *)

NilErr == <<>>

\* errors.New(name): a sentinel error value
Sentinel(name) == <<name>>

\* fmt.Errorf(msg + ": %w", err)
Wrap(msg, err) == <<msg>> \o err

\* errors.Is(err, target): target occurs somewhere in the chain
ErrorsIs(err, target) == \E i \in 1..Len(err) : err[i] = target

\* err == target, the identity comparison of Go error values
ErrEq(err, target) == err = Sentinel(target)

-----------------------------------------------------------------------------
(* Time *)

\* resolution of the modelled clock
TicksPerSecond == 2

\* jwt.TimePrecision is one second: NewNumericDate truncates to it
TruncateToSecond(t) == t - (t % TicksPerSecond)

\* 24 * 7 * time.Hour
RefreshTokenLifetime == 7 * 24 * 3600 * TicksPerSecond

\* the clock is observed over the lifetime of a refresh token plus a tail
MaxSmallTicks == 3
MaxTime == RefreshTokenLifetime + MaxSmallTicks


-----------------------------------------------------------------------------
(* Token Service: internal/auth/jwt.go over github.com/golang-jwt/jwt/v5 *)

\* the secrets a JWTService may be configured with
Secrets == {"secret-key-1", "secret-key-2"}

\* the largest configured access-token lifetime (expiryHours), in ticks
MaxDuration == 2
Durations == 1..MaxDuration

\* the user ids and emails handed to the token service
MaxUsers == 2
UserIDs == 1..MaxUsers
Emails == {"a@x.io", "b@x.io"}

\* NewJWTService(secretKey, expiryHours)
NewJWTService(secretKey, expiryHours) ==
    [secretKey |-> secretKey, expiryHours |-> expiryHours]

Services == {NewJWTService(s, d) : s \in Secrets, d \in Durations}

\* fmt.Sprintf("%d", userID) / strconv.Itoa
Itoa(n) == ToString(n)

\* strconv.Atoi on the decimal strings Itoa produces; ok is false otherwise
Atoi(s) ==
    IF \E n \in -1..(MaxUsers + 1) : Itoa(n) = s
    THEN [ok |-> TRUE, n |-> CHOOSE n \in -1..(MaxUsers + 1) : Itoa(n) = s]
    ELSE [ok |-> FALSE, n |-> 0]

\* HMAC-SHA256 as an ideal MAC: the tag names the key and the signed text
HMACSHA256(key, signingString) == [key |-> key, msg |-> signingString]

\* token.SignedString(key): header and JSON payload, then the tag over both
SignedString(alg, payload, key) ==
    [alg |-> alg, payload |-> payload,
     sig |-> HMACSHA256(key, [alg |-> alg, payload |-> payload])]

\* json.Marshal of JWTClaims: user_id and email always present, the
\* registered claims are omitempty (all of them are set by GenerateToken)
MarshalJWTClaims(c) ==
    [user_id |-> c.UserID, email |-> c.Email, iss |-> c.Issuer,
     sub |-> c.Subject, exp |-> c.ExpiresAt, nbf |-> c.NotBefore,
     iat |-> c.IssuedAt]

\* json.Marshal of jwt.RegisteredClaims: no user_id, no email
MarshalRegisteredClaims(c) ==
    [iss |-> c.Issuer, sub |-> c.Subject, exp |-> c.ExpiresAt,
     nbf |-> c.NotBefore, iat |-> c.IssuedAt]

\* json.Unmarshal into &JWTClaims{}: absent members keep the zero value
UnmarshalJWTClaims(p) ==
    [UserID    |-> IF "user_id" \in DOMAIN p THEN p.user_id ELSE 0,
     Email     |-> IF "email" \in DOMAIN p THEN p.email ELSE "",
     Issuer    |-> IF "iss" \in DOMAIN p THEN p.iss ELSE "",
     Subject   |-> IF "sub" \in DOMAIN p THEN p.sub ELSE "",
     ExpiresAt |-> IF "exp" \in DOMAIN p THEN p.exp ELSE -1,
     NotBefore |-> IF "nbf" \in DOMAIN p THEN p.nbf ELSE -1,
     IssuedAt  |-> IF "iat" \in DOMAIN p THEN p.iat ELSE -1]

\* json.Unmarshal into &jwt.RegisteredClaims{}: unknown members are ignored
UnmarshalRegisteredClaims(p) ==
    [Issuer    |-> IF "iss" \in DOMAIN p THEN p.iss ELSE "",
     Subject   |-> IF "sub" \in DOMAIN p THEN p.sub ELSE "",
     ExpiresAt |-> IF "exp" \in DOMAIN p THEN p.exp ELSE -1,
     NotBefore |-> IF "nbf" \in DOMAIN p THEN p.nbf ELSE -1,
     IssuedAt  |-> IF "iat" \in DOMAIN p THEN p.iat ELSE -1]

ZeroJWTClaims ==
    [UserID |-> 0, Email |-> "", Issuer |-> "", Subject |-> "",
     ExpiresAt |-> -1, NotBefore |-> -1, IssuedAt |-> -1]

\* GenerateToken forgetting to copy the email into the claims
GenerateToken_NoEmail(j, userID, email, t) ==
    SignedString("HS256",
        MarshalJWTClaims(
            [UserID    |-> userID,
             Email     |-> "",
             ExpiresAt |-> TruncateToSecond(t + j.expiryHours),
             IssuedAt  |-> TruncateToSecond(t),
             NotBefore |-> TruncateToSecond(t),
             Issuer    |-> "todo-app",
             Subject   |-> Itoa(userID)]),
        j.secretKey)

\* JWTService.GenerateToken(userID, email) called at time t
GenerateToken(j, userID, email, t) ==
    SignedString("HS256",
        MarshalJWTClaims(
            [UserID    |-> userID,
             Email     |-> email,
             ExpiresAt |-> TruncateToSecond(t + j.expiryHours),
             IssuedAt  |-> TruncateToSecond(t),
             NotBefore |-> TruncateToSecond(t),
             Issuer    |-> "todo-app",
             Subject   |-> Itoa(userID)]),
        j.secretKey)

\* GenerateRefreshToken forgetting to add the lifetime to the issue time
GenerateRefreshToken_NoLifetime(j, userID, t) ==
    SignedString("HS256",
        MarshalRegisteredClaims(
            [ExpiresAt |-> TruncateToSecond(t),
             IssuedAt  |-> TruncateToSecond(t),
             NotBefore |-> TruncateToSecond(t),
             Issuer    |-> "todo-app-refresh",
             Subject   |-> Itoa(userID)]),
        j.secretKey)

\* JWTService.GenerateRefreshToken(userID) called at time t
GenerateRefreshToken(j, userID, t) ==
    SignedString("HS256",
        MarshalRegisteredClaims(
            [ExpiresAt |-> TruncateToSecond(t + RefreshTokenLifetime),
             IssuedAt  |-> TruncateToSecond(t),
             NotBefore |-> TruncateToSecond(t),
             Issuer    |-> "todo-app-refresh",
             Subject   |-> Itoa(userID)]),
        j.secretKey)

\* the key function of both validators: HMAC methods only, then the secret
KeyFunc(j, token) ==
    IF token.alg \in {"HS256", "HS384", "HS512"}
    THEN [err |-> NilErr, key |-> j.secretKey]
    ELSE [err |-> Sentinel("invalid signing method"), key |-> ""]

\* a validator that still accepts a token at the instant it expires
ValidateClaims_ExpInclusive(c, t) ==
    IF c.ExpiresAt # -1 /\ ~(t <= c.ExpiresAt)
    THEN <<"ErrTokenInvalidClaims", "ErrTokenExpired">>
    ELSE IF c.NotBefore # -1 /\ t < c.NotBefore
    THEN <<"ErrTokenInvalidClaims", "ErrTokenNotValidYet">>
    ELSE NilErr

\* the jwt/v5 validator with default options: exp (now must be before it)
\* and nbf (now must not be before it); iat, iss and aud are not verified
ValidateClaims(c, t) ==
    IF c.ExpiresAt # -1 /\ ~(t < c.ExpiresAt)
    THEN <<"ErrTokenInvalidClaims", "ErrTokenExpired">>
    ELSE IF c.NotBefore # -1 /\ t < c.NotBefore
    THEN <<"ErrTokenInvalidClaims", "ErrTokenNotValidYet">>
    ELSE NilErr

\* a parser that decodes and validates the claims without checking the tag
ParseWithClaims_Unverified(j, token, claims, t) ==
    LET k == KeyFunc(j, token) IN
    IF k.err # NilErr
    THEN Wrap("ErrTokenUnverifiable", k.err)
    ELSE ValidateClaims(claims, t)

\* jwt.ParseWithClaims: key function, signature, then the claims validator
ParseWithClaims(j, token, claims, t) ==
    LET k == KeyFunc(j, token) IN
    IF k.err # NilErr
    THEN Wrap("ErrTokenUnverifiable", k.err)
    ELSE IF token.sig # HMACSHA256(k.key, [alg |-> token.alg, payload |-> token.payload])
    THEN <<"ErrTokenSignatureInvalid">>
    ELSE ValidateClaims(claims, t)

\* JWTService.ValidateToken(tokenString) called at time t
ValidateToken(j, token, t) ==
    LET claims == UnmarshalJWTClaims(token.payload)
        err == ParseWithClaims(j, token, claims, t)
    IN  IF err # NilErr
        THEN [claims |-> ZeroJWTClaims, err |-> err]
        ELSE [claims |-> claims, err |-> NilErr]

\* JWTService.ValidateRefreshToken(tokenString) called at time t
ValidateRefreshToken(j, token, t) ==
    LET claims == UnmarshalRegisteredClaims(token.payload)
        err == ParseWithClaims(j, token, claims, t)
        a == Atoi(claims.Subject)
    IN  IF err # NilErr
        THEN [userID |-> 0, err |-> err]
        ELSE IF ~a.ok
        THEN [userID |-> 0, err |-> Sentinel("strconv.ErrSyntax")]
        ELSE [userID |-> a.n, err |-> NilErr]


\* the value of a token variable before any token was issued
NoJWT ==
    SignedString("", [iss |-> ""], "")

-----------------------------------------------------------------------------
(* Credential hasher and auth input validator *)

\* the passwords tried at registration: too short, acceptable, and one of
\* more than 72 bytes; at login: none, the registered one and a wrong one
RegisterPasswords == {"pass12", "Password1234", "long-73-bytes"}
LoginPasswords == {"", "Password1234", "password123"}

\* len(password)
PasswordLen(p) ==
    CASE p = "" -> 0
      [] p = "pass12" -> 6
      [] p = "Password1234" -> 12
      [] p = "password123" -> 11
      [] OTHER -> 73

\* bcrypt draws a fresh salt on every GenerateFromPassword
Salts == {"salt-1", "salt-2"}

NoHash == [pw |-> "", salt |-> ""]

\* PasswordService.HashPassword: bcrypt refuses more than 72 bytes
HashPassword(password, salt) ==
    IF PasswordLen(password) > 72
    THEN [hash |-> NoHash, err |-> Sentinel("bcrypt.ErrPasswordTooLong")]
    ELSE [hash |-> [pw |-> password, salt |-> salt], err |-> NilErr]

\* PasswordService.VerifyPassword: bcrypt.CompareHashAndPassword
VerifyPassword(hashedPassword, password) ==
    IF hashedPassword.pw = password
    THEN NilErr
    ELSE Sentinel("bcrypt.ErrMismatchedHashAndPassword")

\* the emails tried: the empty one and the well-formed ones
RegisterEmails == {""} \cup Emails

\* ValidatorService.IsValidEmail on the emails tried
IsValidEmail(email) == email \in Emails

\* ValidatorService.IsValidPassword
IsValidPassword(password) == PasswordLen(password) >= 8

\* ValidatorService.ValidateRegisterInput: both fields are reported
ValidateRegisterInput(email, password) ==
    LET ve == [Email    |-> IF email = "" THEN "email is required"
                            ELSE IF ~IsValidEmail(email) THEN "email format is invalid"
                            ELSE "",
               Password |-> IF password = "" THEN "password is required"
                            ELSE IF ~IsValidPassword(password)
                            THEN "password must be at least 8 character long"
                            ELSE ""]
    IN  IF ve.Email # "" \/ ve.Password # ""
        THEN <<"ValidationErrors", ve.Email, ve.Password>>
        ELSE NilErr

\* ValidatorService.ValidateLoginInput: non-emptiness only
ValidateLoginInput(email, password) ==
    IF email = "" THEN Sentinel("email is required")
    ELSE IF password = "" THEN Sentinel("password is required")
    ELSE NilErr

-----------------------------------------------------------------------------
(* Account directory: internal/auth/repository.go over pgx/v5 *)

NoUser == [ID |-> 0, Email |-> "", PasswordHash |-> NoHash, LastLoginAt |-> -1]

\* what pgx reports for a failed round trip to the store
DBError == Sentinel("pgconn: connection failure")

\* what Row.Scan reports for an empty result: pgx.ErrNoRows, which unwraps
\* to sql.ErrNoRows for errors.Is but is a different error value
PgxErrNoRows == <<"pgx.ErrNoRows", "sql.ErrNoRows">>

\* the users(email) UNIQUE constraint
UniqueViolation == Sentinel("pgconn: 23505 unique_violation users_email_key")

\* rows of users matching WHERE email = $1
UsersByEmail(us, email) == {id \in DOMAIN us : us[id].Email = email}

\* UserRepository.EmailExists; fail is a failed round trip
EmailExists(us, email, fail) ==
    IF fail THEN [exists |-> FALSE, err |-> DBError]
    ELSE [exists |-> UsersByEmail(us, email) # {}, err |-> NilErr]

\* UserRepository.GetByID
UserGetByID(us, id, fail) ==
    LET err == IF fail THEN DBError
               ELSE IF id \notin DOMAIN us THEN PgxErrNoRows ELSE NilErr
    IN  IF err # NilErr
        THEN IF ErrorsIs(err, "sql.ErrNoRows")
             THEN [user |-> NoUser, err |-> Sentinel("ErrUserNotFound")]
             ELSE [user |-> NoUser, err |-> err]
        ELSE [user |-> us[id], err |-> NilErr]

\* UserRepository.GetByEmail
GetByEmail(us, email, fail) ==
    LET rows == UsersByEmail(us, email)
        err == IF fail THEN DBError
               ELSE IF rows = {} THEN PgxErrNoRows ELSE NilErr
    IN  IF err # NilErr
        THEN IF ErrorsIs(err, "sql.ErrNoRows")
             THEN [user |-> NoUser, err |-> Sentinel("ErrUserNotFound")]
             ELSE [user |-> NoUser, err |-> err]
        ELSE [user |-> us[CHOOSE id \in rows : TRUE], err |-> NilErr]

\* Create leaving the duplicate check to the UNIQUE constraint of the table
UserCreate_NoExistsCheck(us, seq, input, salt, failAt) ==
    LET h == HashPassword(input.Password, salt)
        row == [ID |-> seq, Email |-> input.Email, PasswordHash |-> h.hash,
                LastLoginAt |-> -1]
    IN  IF failAt = 1
        THEN [user |-> NoUser, err |-> DBError, users |-> us, seq |-> seq]
        ELSE IF h.err # NilErr
        THEN [user |-> NoUser, err |-> h.err, users |-> us, seq |-> seq]
        ELSE IF failAt = 2
        THEN [user |-> NoUser, err |-> DBError, users |-> us, seq |-> seq]
        ELSE IF UsersByEmail(us, input.Email) # {}
        THEN [user |-> NoUser, err |-> UniqueViolation, users |-> us, seq |-> seq + 1]
        ELSE [user |-> row, err |-> NilErr, users |-> (seq :> row) @@ us, seq |-> seq + 1]

\* UserRepository.Create.  failAt names the round trip that fails (0: none,
\* 1: the EmailExists query, 2: the INSERT); the result carries the table
\* and the sequence after the call.
UserCreate(us, seq, input, salt, failAt) ==
    LET ex == EmailExists(us, input.Email, failAt = 1)
        h == HashPassword(input.Password, salt)
        row == [ID |-> seq, Email |-> input.Email, PasswordHash |-> h.hash,
                LastLoginAt |-> -1]
    IN  IF ex.err # NilErr
        THEN [user |-> NoUser, err |-> ex.err, users |-> us, seq |-> seq]
        ELSE IF ex.exists
        THEN [user |-> NoUser, err |-> Sentinel("ErrEmailExits"), users |-> us, seq |-> seq]
        ELSE IF h.err # NilErr
        THEN [user |-> NoUser, err |-> h.err, users |-> us, seq |-> seq]
        ELSE IF failAt = 2
        THEN [user |-> NoUser, err |-> DBError, users |-> us, seq |-> seq]
        ELSE IF UsersByEmail(us, input.Email) # {}
        THEN [user |-> NoUser, err |-> UniqueViolation, users |-> us, seq |-> seq + 1]
        ELSE [user |-> row, err |-> NilErr, users |-> (seq :> row) @@ us, seq |-> seq + 1]

\* UserRepository.UpdateLastLogin: UPDATE ... WHERE id = $1 at time t
UpdateLastLogin(us, userID, t, fail) ==
    IF fail THEN [err |-> DBError, users |-> us]
    ELSE [err |-> NilErr,
          users |-> [id \in DOMAIN us |->
                        IF id = userID THEN [us[id] EXCEPT !.LastLoginAt = t]
                        ELSE us[id]]]

\* Authenticate passing the lookup error through instead of mapping it
Authenticate_LeaksNotFound(us, email, password, t, failAt) ==
    LET g == GetByEmail(us, email, failAt = 1)
        u == UpdateLastLogin(us, g.user.ID, t, failAt = 2)
    IN  IF g.err # NilErr
        THEN [user |-> NoUser, err |-> g.err, users |-> us]
        ELSE IF VerifyPassword(g.user.PasswordHash, password) # NilErr
        THEN [user |-> NoUser, err |-> Sentinel("ErrInvalidCredentials"), users |-> us]
        ELSE [user |-> g.user, err |-> NilErr, users |-> u.users]

\* UserRepository.Authenticate.  failAt: 0 none, 1 GetByEmail, 2 UpdateLastLogin
Authenticate(us, email, password, t, failAt) ==
    LET g == GetByEmail(us, email, failAt = 1)
        u == UpdateLastLogin(us, g.user.ID, t, failAt = 2)
    IN  IF g.err # NilErr
        THEN IF ErrorsIs(g.err, "ErrUserNotFound")
             THEN [user |-> NoUser, err |-> Sentinel("ErrInvalidCredentials"), users |-> us]
             ELSE [user |-> NoUser, err |-> g.err, users |-> us]
        ELSE IF VerifyPassword(g.user.PasswordHash, password) # NilErr
        THEN [user |-> NoUser, err |-> Sentinel("ErrInvalidCredentials"), users |-> us]
        ELSE [user |-> g.user, err |-> NilErr, users |-> u.users]


-----------------------------------------------------------------------------
(* Authentication Service *)

\* the default access-token lifetime, JWT_EXPIRY_HOURS = 24
AccessTokenLifetime == 24 * 3600 * TicksPerSecond

\* the JWTService NewAuthService builds from the configuration
AuthJWT == NewJWTService("secret-key-1", AccessTokenLifetime)

NoAuthResult == [User |-> NoUser, Token |-> NoJWT, RefreshToken |-> NoJWT, ExpiresAt |-> -1]

\* the AuthResult the three flows build: tokens issued at t for user
IssueAuthResult(user, t) ==
    [User         |-> user,
     Token        |-> GenerateToken(AuthJWT, user.ID, user.Email, t),
     RefreshToken |-> GenerateRefreshToken(AuthJWT, user.ID, t),
     ExpiresAt    |-> t + RefreshTokenLifetime]

\* AuthService.Register
Register(us, seq, email, password, salt, t, failAt) ==
    LET v == ValidateRegisterInput(email, password)
        c == UserCreate(us, seq, [Email |-> email, Password |-> password], salt, failAt)
    IN  IF v # NilErr
        THEN [result |-> NoAuthResult, err |-> Wrap("validation failed", v),
              users |-> us, seq |-> seq]
        ELSE IF c.err # NilErr
        THEN [result |-> NoAuthResult,
              err |-> IF ErrEq(c.err, "ErrEmailExits")
                      THEN Wrap("registration failed", c.err)
                      ELSE Wrap("failed to create user", c.err),
              users |-> c.users, seq |-> c.seq]
        ELSE [result |-> IssueAuthResult(c.user, t), err |-> NilErr,
              users |-> c.users, seq |-> c.seq]

\* AuthService.Login
Login(us, email, password, t, failAt) ==
    LET v == ValidateLoginInput(email, password)
        a == Authenticate(us, email, password, t, failAt)
    IN  IF v # NilErr
        THEN [result |-> NoAuthResult, err |-> Wrap("validation failed", v), users |-> us]
        ELSE IF a.err # NilErr
        THEN [result |-> NoAuthResult, err |-> Wrap("authentication failed", a.err),
              users |-> a.users]
        ELSE [result |-> IssueAuthResult(a.user, t), err |-> NilErr, users |-> a.users]

\* AuthService.RefreshToken
RefreshToken(us, refreshToken, t, fail) ==
    LET v == ValidateRefreshToken(AuthJWT, refreshToken, t)
        g == UserGetByID(us, v.userID, fail)
    IN  IF v.err # NilErr
        THEN [result |-> NoAuthResult, err |-> Wrap("invalid refresh token", v.err)]
        ELSE IF g.err # NilErr
        THEN [result |-> NoAuthResult, err |-> Wrap("user not found", g.err)]
        ELSE [result |-> IssueAuthResult(g.user, t), err |-> NilErr]

\* AuthService.GetUserFromToken
GetUserFromToken(us, token, t, fail) ==
    LET v == ValidateToken(AuthJWT, token, t)
        g == UserGetByID(us, v.claims.UserID, fail)
    IN  IF v.err # NilErr
        THEN [user |-> NoUser, err |-> Wrap("invalid token", v.err)]
        ELSE IF g.err # NilErr
        THEN [user |-> NoUser, err |-> Wrap("user not found", g.err)]
        ELSE [user |-> g.user, err |-> NilErr]


-----------------------------------------------------------------------------
(* Input Validator (Todo): internal/todo/validator.go *)

\* a nil *string / *bool
Nil == "<nil>"

\* the titles tried: empty, two ordinary ones, and one of 501 characters
Titles == {"", "t", "u", "long-501"}

\* the CreateTodoInput values tried; Nil is an absent description
CreateInputs ==
    {[Title |-> "", Description |-> Nil],
     [Title |-> "t", Description |-> "d"],
     [Title |-> "long-501", Description |-> Nil],
     [Title |-> "t", Description |-> "long-2001"]}

\* the descriptions tried: two ordinary ones and one of 2001 characters
Descriptions == {"d", "e", "long-2001"}

\* the UpdateTodoInput values tried
UpdateInputs ==
    {[Title |-> Nil, Description |-> Nil, Completed |-> Nil],
     [Title |-> "", Description |-> Nil, Completed |-> Nil],
     [Title |-> "u", Description |-> Nil, Completed |-> Nil],
     [Title |-> Nil, Description |-> "e", Completed |-> "true"]}

\* len(s) of the strings tried
StrLen(s) ==
    CASE s = "" -> 0
      [] s = "long-501" -> 501
      [] s = "long-2001" -> 2001
      [] OTHER -> 1

\* ValidatorService.validateTitle
validateTitle(title) ==
    IF title = "" THEN Sentinel("ErrTodoTitleRequired")
    ELSE IF StrLen(title) > 500 THEN Sentinel("ErrTodoTitleTooLong")
    ELSE NilErr

\* ValidatorService.validateDescription
validateDescription(description) ==
    IF StrLen(description) > 2000 THEN Sentinel("ErrTodoDescriptionTooLong")
    ELSE NilErr

\* ValidatorService.ValidateTodoInput
ValidateTodoInput(input) ==
    IF validateTitle(input.Title) # NilErr THEN validateTitle(input.Title)
    ELSE IF input.Description # Nil /\ validateDescription(input.Description) # NilErr
    THEN validateDescription(input.Description)
    ELSE NilErr

\* ValidatorService.ValidateUpdateInput
ValidateUpdateInput(input) ==
    IF input.Completed = Nil /\ input.Description = Nil /\ input.Title = Nil
    THEN Sentinel("ErrInvalidTodoInput")
    ELSE IF input.Title # Nil /\ validateTitle(input.Title) # NilErr
    THEN validateTitle(input.Title)
    ELSE IF input.Description # Nil /\ validateDescription(input.Description) # NilErr
    THEN validateDescription(input.Description)
    ELSE NilErr

-----------------------------------------------------------------------------
(* Task Repository: TodoRepository over pgx/v5 and PostgreSQL *)

NoTodo == [ID |-> 0, UserID |-> 0, Title |-> "", Description |-> Nil, Completed |-> "false"]

\* Row.Scan failing to convert a column into its destination
PgxScanError == Sentinel("pgx: cannot scan text into *bool")

\* pgx refusing a statement whose placeholders and arguments disagree
PgxArgumentError == Sentinel("pgx: expected 2 arguments, got more")

\* a WHERE clause that forgets the owner: WHERE id = $1
TodoRows_AnyOwner(ts, todoID, userID) ==
    {id \in DOMAIN ts : id = todoID}

\* rows of todos matching WHERE id = $1 and user_id = $2
TodoRows(ts, todoID, userID) ==
    {id \in DOMAIN ts : id = todoID /\ ts[id].UserID = userID}

\* TodoRepository.Create handing out the lowest id no row has, in place of
\* the next value of the sequence behind the SERIAL column
TodoCreate_ReusesFreeId(ts, seq, userID, input, fail) ==
    LET free == CHOOSE id \in 1..seq : id \notin DOMAIN ts /\ \A j \in 1..(id - 1) : j \in DOMAIN ts
        row == [ID |-> free, UserID |-> userID, Title |-> input.Title,
                Description |-> input.Description, Completed |-> "false"]
    IN  IF fail
        THEN [todo |-> NoTodo, err |-> Wrap("failed to create todo", DBError),
              todos |-> ts, seq |-> seq]
        ELSE [todo |-> NoTodo, err |-> Wrap("failed to create todo", PgxScanError),
              todos |-> (free :> row) @@ ts, seq |-> seq + 1]

\* TodoRepository.Create: the INSERT runs with completed at its column
\* default; RETURNING yields (id, user_id, title, description, created_at,
\* updated_at) and Scan reads them into (ID, UserID, Description, Completed,
\* CreatedAt, UpdatedAt), so the description text meets a *bool and Scan
\* fails after the row has been stored.
TodoCreate(ts, seq, userID, input, fail) ==
    LET row == [ID |-> seq, UserID |-> userID, Title |-> input.Title,
                Description |-> input.Description, Completed |-> "false"]
    IN  IF fail
        THEN [todo |-> NoTodo, err |-> Wrap("failed to create todo", DBError),
              todos |-> ts, seq |-> seq]
        ELSE [todo |-> NoTodo, err |-> Wrap("failed to create todo", PgxScanError),
              todos |-> (seq :> row) @@ ts, seq |-> seq + 1]

\* TodoRepository.GetByID: an empty result is pgx.ErrNoRows, which the
\* comparison err == sql.ErrNoRows does not recognise
TodoGetByID(ts, todoID, userID, fail) ==
    LET rows == TodoRows(ts, todoID, userID)
        err == IF fail THEN DBError
               ELSE IF rows = {} THEN PgxErrNoRows ELSE NilErr
    IN  IF err # NilErr
        THEN IF ErrEq(err, "sql.ErrNoRows")
             THEN [todo |-> NoTodo, err |-> Sentinel("ErrTodoNotFound")]
             ELSE [todo |-> NoTodo, err |-> Wrap("failed to get todo", err)]
        ELSE [todo |-> ts[todoID], err |-> NilErr]

\* TodoRepository.Update: with no field supplied it is GetByID; otherwise the
\* SET list is built with "%d" instead of "$%d", so the statement has two
\* placeholders for 2 + k arguments and never runs
TodoUpdate(ts, todoID, userID, input, fail) ==
    IF input.Title = Nil /\ input.Description = Nil /\ input.Completed = Nil
    THEN [todo |-> TodoGetByID(ts, todoID, userID, fail).todo,
          err |-> TodoGetByID(ts, todoID, userID, fail).err, todos |-> ts]
    ELSE [todo |-> NoTodo,
          err |-> Wrap("failed to update todo", IF fail THEN DBError ELSE PgxArgumentError),
          todos |-> ts]

\* TodoRepository.Delete
TodoDelete(ts, todoID, userID, fail) ==
    LET rows == TodoRows(ts, todoID, userID) IN
    IF fail
    THEN [err |-> Wrap("failed to delete todo", DBError), todos |-> ts]
    ELSE IF rows = {}
    THEN [err |-> Sentinel("ErrTodoNotFound"), todos |-> ts]
    ELSE [err |-> NilErr, todos |-> [id \in DOMAIN ts \ rows |-> ts[id]]]

\* NOT completed
NotBool(b) == IF b = "true" THEN "false" ELSE "true"

\* ToggleComplete with SET completed = TRUE in place of NOT completed
TodoToggleComplete_SetsTrue(ts, todoID, userID, fail) ==
    LET rows == TodoRows(ts, todoID, userID)
        after == [id \in DOMAIN ts |->
                    IF id \in rows THEN [ts[id] EXCEPT !.Completed = "true"] ELSE ts[id]]
    IN  IF fail
        THEN [todo |-> NoTodo, err |-> Wrap("failed to toggle complete todo", DBError),
              todos |-> ts]
        ELSE IF rows = {}
        THEN [todo |-> NoTodo, err |-> Wrap("failed to toggle complete todo", PgxErrNoRows),
              todos |-> ts]
        ELSE [todo |-> after[todoID], err |-> NilErr, todos |-> after]

\* TodoRepository.ToggleComplete
TodoToggleComplete(ts, todoID, userID, fail) ==
    LET rows == TodoRows(ts, todoID, userID)
        err == IF fail THEN DBError
               ELSE IF rows = {} THEN PgxErrNoRows ELSE NilErr
        after == [id \in DOMAIN ts |->
                    IF id \in rows
                    THEN [ts[id] EXCEPT !.Completed = NotBool(ts[id].Completed)]
                    ELSE ts[id]]
    IN  IF err # NilErr
        THEN IF ErrEq(err, "sql.ErrNoRows")
             THEN [todo |-> NoTodo, err |-> Sentinel("ErrTodoNotFound"), todos |-> ts]
             ELSE [todo |-> NoTodo, err |-> Wrap("failed to toggle complete todo", err),
                   todos |-> ts]
        ELSE [todo |-> after[todoID], err |-> NilErr, todos |-> after]

\* TodoRepository.CountByUserID
CountByUserID(ts, userID, fail) ==
    IF fail
    THEN [count |-> 0, err |-> Wrap("failed to get todo count for user", DBError)]
    ELSE [count |-> Cardinality({id \in DOMAIN ts : ts[id].UserID = userID}),
          err |-> NilErr]


(* the timestamp columns of the todos table *)

\* the rows whose updated_at the statement of ToggleComplete sets: none
ToggleStamps_NoUpdatedAt(r, todoID) == {}

\* the rows whose updated_at the statement of ToggleComplete sets
\* (SET completed = NOT completed, updated_at = NOW()): the row it toggled
ToggleStamps(r, todoID) == IF r.err = NilErr THEN {todoID} ELSE {}

\* the rows whose updated_at the statement of Update sets: its SET list
\* holds the supplied fields only
UpdateStamps(r, todoID, input) == {}

\* the todo a call mutated: the one it names, when it returned no error
MutatedBy(r, todoID) == IF r.err = NilErr THEN {todoID} ELSE {}

\* the timestamp columns after a statement left the rows `after` at time t:
\* created_at and updated_at default to NOW() on insert, updated_at is set
\* on the rows in `written`, and deleted rows are gone.  MutatedAt is
\* history, not a column: the time of the last update or toggle of the todo
\* that returned without error, and the time of the insert before the first.
Restamp(ss, after, written, mutated, t) ==
    [id \in DOMAIN after |->
        IF id \notin DOMAIN ss
        THEN [CreatedAt |-> t, UpdatedAt |-> t, MutatedAt |-> t]
        ELSE [CreatedAt |-> ss[id].CreatedAt,
              UpdatedAt |-> IF id \in written THEN t ELSE ss[id].UpdatedAt,
              MutatedAt |-> IF id \in mutated THEN t ELSE ss[id].MutatedAt]]

(* listing: TodoFilter, search terms and TodoRepository.GetByUserID *)

\* a *string search term: nil, or a string given by its characters
NoSearch == [isNil |-> TRUE, chars |-> <<>>]
SearchOf(chars) == [isNil |-> FALSE, chars |-> chars]

\* the characters of the stored texts
Chars(text) ==
    IF text = "" THEN <<>> ELSE <<text>>

\* case folding of ILIKE on the characters tried
ToLower(c) == IF c = "T" THEN "t" ELSE c

LowerAll(chars) == [i \in 1..Len(chars) |-> ToLower(chars[i])]

\* needle occurs in hay as a contiguous run
IsSubstring(needle, hay) ==
    \E i \in 0..(Len(hay) - Len(needle)) :
        SubSeq(hay, i + 1, i + Len(needle)) = needle

\* text ILIKE '%' || term || '%'; a NULL text matches nothing
ILike(text, term) ==
    /\ text # Nil
    /\ IsSubstring(LowerAll(term), LowerAll(Chars(text)))

\* pgx reporting the server's refusal of "... AND completed $2"
PgxSyntaxError == Sentinel("pgconn: 42601 syntax error at or near \"$2\"")

\* the ids in S, largest first: ORDER BY created_at DESC, ids being handed
\* out in creation order
RECURSIVE NewestFirst(_)
NewestFirst(S) ==
    IF S = {} THEN <<>>
    ELSE LET m == CHOOSE x \in S : \A y \in S : y <= x
         IN  <<m>> \o NewestFirst(S \ {m})

NoList == [Todos |-> <<>>, Total |-> 0, Limit |-> 0, Offset |-> 0, HasMore |-> FALSE]

\* TodoRepository.GetByUserID.  failAt: 0 none, 1 the list query, 2 the count.
\* The completed clause lacks its operator, and LIMIT / OFFSET are written
\* with the argument index instead of a placeholder while their values are
\* still appended to the arguments.
GetByUserID(ts, userID, filter, failAt) ==
    LET searching == ~filter.Search.isNil /\ filter.Search.chars # <<>>
        matching == {id \in DOMAIN ts :
                        /\ ts[id].UserID = userID
                        /\ searching => \/ ILike(ts[id].Title, filter.Search.chars)
                                        \/ ILike(ts[id].Description, filter.Search.chars)}
        ids == NewestFirst(matching)
        found == [i \in 1..Len(ids) |-> ts[ids[i]]]
        c == CountByUserID(ts, userID, failAt = 2)
    IN  IF failAt = 1
        THEN [list |-> NoList, err |-> Wrap("failed to query todos", DBError)]
        ELSE IF filter.Completed # Nil
        THEN [list |-> NoList, err |-> Wrap("failed to query todos", PgxSyntaxError)]
        ELSE IF filter.Limit > 0 \/ filter.Offset > 0
        THEN [list |-> NoList, err |-> Wrap("failed to query todos", PgxArgumentError)]
        ELSE IF c.err # NilErr
        THEN [list |-> NoList, err |-> Wrap("failed to count todos", c.err)]
        ELSE [list |-> [Todos   |-> found,
                        Total   |-> c.count,
                        Limit   |-> IF filter.Limit = 0 THEN Len(found) ELSE filter.Limit,
                        Offset  |-> filter.Offset,
                        HasMore |-> filter.Offset + Len(found) < c.count],
              err |-> NilErr]


-----------------------------------------------------------------------------
(* Task Service: TodoService *)

\* CreateTodo trying the repository a second time after a failure
CreateTodo_RetriesOnce(ts, seq, userID, input, fail) ==
    LET v == ValidateTodoInput(input)
        c == TodoCreate(ts, seq, userID, input, fail)
        again == TodoCreate(c.todos, c.seq, userID, input, FALSE)
    IN  IF v # NilErr
        THEN [todo |-> NoTodo, err |-> Wrap("failed to validate input", v),
              todos |-> ts, seq |-> seq]
        ELSE IF c.err # NilErr
        THEN [todo |-> NoTodo, err |-> Wrap("failed to create a new todo", again.err),
              todos |-> again.todos, seq |-> again.seq]
        ELSE [todo |-> c.todo, err |-> NilErr, todos |-> c.todos, seq |-> c.seq]

\* TodoService.CreateTodo
CreateTodo(ts, seq, userID, input, fail) ==
    LET v == ValidateTodoInput(input)
        c == TodoCreate(ts, seq, userID, input, fail)
    IN  IF v # NilErr
        THEN [todo |-> NoTodo, err |-> Wrap("failed to validate input", v),
              todos |-> ts, seq |-> seq]
        ELSE IF c.err # NilErr
        THEN [todo |-> NoTodo, err |-> Wrap("failed to create a new todo", c.err),
              todos |-> c.todos, seq |-> c.seq]
        ELSE [todo |-> c.todo, err |-> NilErr, todos |-> c.todos, seq |-> c.seq]

\* GetTodo asking the repository before looking at the id
GetTodo_NoIdCheck(ts, todoID, userID, fail) ==
    LET g == TodoGetByID(ts, todoID, userID, fail) IN
    IF g.err # NilErr
    THEN [todo |-> NoTodo, err |-> Wrap("failed to get todos", g.err)]
    ELSE [todo |-> g.todo, err |-> NilErr]

\* TodoService.GetTodo
GetTodo(ts, todoID, userID, fail) ==
    LET g == TodoGetByID(ts, todoID, userID, fail) IN
    IF todoID <= 0
    THEN [todo |-> NoTodo, err |-> Sentinel("ErrInvalidTodoInput")]
    ELSE IF g.err # NilErr
    THEN [todo |-> NoTodo, err |-> Wrap("failed to get todos", g.err)]
    ELSE [todo |-> g.todo, err |-> NilErr]

\* TodoService.UpdateTodo.  failAt: 0 none, 1 the ownership read, 2 the update
UpdateTodo(ts, todoID, userID, input, failAt) ==
    LET v == ValidateUpdateInput(input)
        g == TodoGetByID(ts, todoID, userID, failAt = 1)
        u == TodoUpdate(ts, todoID, userID, input, failAt = 2)
    IN  IF todoID <= 0
        THEN [todo |-> NoTodo, err |-> Sentinel("ErrInvalidTodoInput"), todos |-> ts]
        ELSE IF v # NilErr
        THEN [todo |-> NoTodo, err |-> Wrap("validation failed", v), todos |-> ts]
        ELSE IF g.err # NilErr
        THEN IF ErrEq(g.err, "ErrTodoNotFound")
             THEN [todo |-> NoTodo, err |-> Sentinel("ErrTodoAccessDenied"), todos |-> ts]
             ELSE [todo |-> NoTodo,
                   err |-> Wrap("failed to validate todo ownership", g.err), todos |-> ts]
        ELSE IF u.err # NilErr
        THEN [todo |-> NoTodo, err |-> Wrap("failed to update todo", u.err),
              todos |-> u.todos]
        ELSE [todo |-> u.todo, err |-> NilErr, todos |-> u.todos]

\* TodoService.DeleteTodo.  failAt: 0 none, 1 the ownership read, 2 the delete
DeleteTodo(ts, todoID, userID, failAt) ==
    LET g == TodoGetByID(ts, todoID, userID, failAt = 1)
        d == TodoDelete(ts, todoID, userID, failAt = 2)
    IN  IF todoID <= 0
        THEN [err |-> Sentinel("ErrInvalidTodoInput"), todos |-> ts]
        ELSE IF g.err # NilErr
        THEN IF ErrEq(g.err, "ErrTodoNotFound")
             THEN [err |-> Sentinel("ErrTodoAccessDenied"), todos |-> ts]
             ELSE [err |-> Wrap("failed to verify todo ownership", g.err), todos |-> ts]
        ELSE IF d.err # NilErr
        THEN [err |-> Wrap("failed to delete todo", d.err), todos |-> d.todos]
        ELSE [err |-> NilErr, todos |-> d.todos]

\* TodoService.ToggleTodoComplete.  failAt: 0 none, 1 the ownership read,
\* 2 the toggle
ToggleTodoComplete(ts, todoID, userID, failAt) ==
    LET g == TodoGetByID(ts, todoID, userID, failAt = 1)
        x == TodoToggleComplete(ts, todoID, userID, failAt = 2)
    IN  IF todoID <= 0
        THEN [todo |-> NoTodo, err |-> Sentinel("ErrInvalidTodoInput"), todos |-> ts]
        ELSE IF g.err # NilErr
        THEN IF ErrEq(g.err, "ErrTodoNotFound")
             THEN [todo |-> NoTodo, err |-> Sentinel("ErrTodoAccessDenied"), todos |-> ts]
             ELSE [todo |-> NoTodo,
                   err |-> Wrap("failed to verity todo ownership", g.err), todos |-> ts]
        ELSE IF x.err # NilErr
        THEN [todo |-> NoTodo, err |-> Wrap("failed to toggle complete todo", x.err),
              todos |-> x.todos]
        ELSE [todo |-> x.todo, err |-> NilErr, todos |-> x.todos]

\* unicode.IsSpace on the characters tried
IsSpace(c) == c \in {" ", "\t", "\n", "\r"}

\* strings.TrimSpace on a string given by its characters
RECURSIVE TrimLeft(_)
TrimLeft(chars) ==
    IF chars # <<>> /\ IsSpace(Head(chars)) THEN TrimLeft(Tail(chars)) ELSE chars

RECURSIVE TrimRight(_)
TrimRight(chars) ==
    IF chars # <<>> /\ IsSpace(chars[Len(chars)])
    THEN TrimRight(SubSeq(chars, 1, Len(chars) - 1))
    ELSE chars

TrimSpace(chars) == TrimRight(TrimLeft(chars))

\* normalizeFilter without the upper clamp of the limit
normalizeFilter_NoUpperClamp(filter) ==
    LET trimmed == TrimSpace(filter.Search.chars)
    IN  [Completed |-> filter.Completed,
         Search    |-> IF filter.Search.isNil THEN filter.Search
                       ELSE IF trimmed = <<>> THEN NoSearch
                       ELSE SearchOf(trimmed),
         Limit     |-> IF filter.Limit <= 0 THEN 20 ELSE filter.Limit,
         Offset    |-> IF filter.Offset < 0 THEN 0 ELSE filter.Offset]

\* TodoService.normalizeFilter
normalizeFilter(filter) ==
    LET limit == IF filter.Limit <= 0 THEN 20 ELSE filter.Limit
        trimmed == TrimSpace(filter.Search.chars)
    IN  [Completed |-> filter.Completed,
         Search    |-> IF filter.Search.isNil THEN filter.Search
                       ELSE IF trimmed = <<>> THEN NoSearch
                       ELSE SearchOf(trimmed),
         Limit     |-> IF limit > 100 THEN 100 ELSE limit,
         Offset    |-> IF filter.Offset < 0 THEN 0 ELSE filter.Offset]

\* TodoService.GetUserTodos
GetUserTodos(ts, userID, filter, failAt) ==
    LET r == GetByUserID(ts, userID, normalizeFilter(filter), failAt) IN
    IF r.err # NilErr
    THEN [list |-> NoList, err |-> Wrap("failed to get todos", r.err)]
    ELSE [list |-> r.list, err |-> NilErr]

\* TodoService.GetUserTodoStats.  failAt: 0 none, 1 the count, 2 the list of
\* completed todos, 3 the list of pending todos
GetUserTodoStats(ts, userID, failAt) ==
    LET total == CountByUserID(ts, userID, failAt = 1)
        completed == GetByUserID(ts, userID,
                        [Completed |-> "true", Search |-> NoSearch, Limit |-> 0, Offset |-> 0],
                        IF failAt = 2 THEN 1 ELSE 0)
        pending == GetByUserID(ts, userID,
                        [Completed |-> "false", Search |-> NoSearch, Limit |-> 0, Offset |-> 0],
                        IF failAt = 3 THEN 1 ELSE 0)
    IN  IF total.err # NilErr
        THEN [stats |-> [Total |-> 0, Completed |-> 0, Pending |-> 0],
              err |-> Wrap("failed to count todos", total.err)]
        ELSE IF completed.err # NilErr
        THEN [stats |-> [Total |-> 0, Completed |-> 0, Pending |-> 0],
              err |-> Wrap("failed to count completed todos", completed.err)]
        ELSE IF pending.err # NilErr
        THEN [stats |-> [Total |-> 0, Completed |-> 0, Pending |-> 0],
              err |-> Wrap("failed to count pending todos", pending.err)]
        ELSE [stats |-> [Total |-> total.count,
                         Completed |-> Len(completed.list.Todos),
                         Pending |-> Len(pending.list.Todos)],
              err |-> NilErr]


NoBatch == [updatedTodos |-> <<>>, errors |-> <<>>, err |-> NilErr]

\* the loop of BatchUpdateTodos from the id at position i on: acc holds the
\* table, the updated todos and the "todo %d: %v" entries so far.  failPos is
\* the position of the id whose ownership read the store fails (0: none).
RECURSIVE BatchLoop(_, _, _, _, _, _)
BatchLoop(acc, userID, todoIDs, input, failPos, i) ==
    IF i > Len(todoIDs) THEN acc
    ELSE LET r == UpdateTodo(acc.todos, todoIDs[i], userID, input,
                             IF i = failPos THEN 1 ELSE 0)
         IN  BatchLoop(
                [todos |-> r.todos,
                 updatedTodos |-> IF r.err = NilErr
                                  THEN Append(acc.updatedTodos, r.todo)
                                  ELSE acc.updatedTodos,
                 errors |-> IF r.err # NilErr
                            THEN Append(acc.errors, [todoID |-> todoIDs[i], err |-> r.err])
                            ELSE acc.errors],
                userID, todoIDs, input, failPos, i + 1)

\* the loop giving up at the first id that fails
RECURSIVE BatchLoop_StopAtFirstError(_, _, _, _, _, _)
BatchLoop_StopAtFirstError(acc, userID, todoIDs, input, failPos, i) ==
    IF i > Len(todoIDs) THEN acc
    ELSE LET r == UpdateTodo(acc.todos, todoIDs[i], userID, input,
                             IF i = failPos THEN 1 ELSE 0)
         IN  IF r.err # NilErr
             THEN [todos |-> r.todos, updatedTodos |-> acc.updatedTodos,
                   errors |-> Append(acc.errors, [todoID |-> todoIDs[i], err |-> r.err])]
             ELSE BatchLoop_StopAtFirstError(
                    [todos |-> r.todos,
                     updatedTodos |-> Append(acc.updatedTodos, r.todo),
                     errors |-> acc.errors],
                    userID, todoIDs, input, failPos, i + 1)

\* what BatchUpdateTodos returns after its loop
BatchResult(l) ==
    [todos |-> l.todos, updatedTodos |-> l.updatedTodos, errors |-> l.errors,
     err |-> IF Len(l.errors) > 0 THEN Sentinel("batch update errors") ELSE NilErr]

\* BatchUpdateTodos stopping at the first failed id
BatchUpdateTodos_StopAtFirstError(ts, userID, todoIDs, input, failPos) ==
    LET v == ValidateUpdateInput(input) IN
    IF Len(todoIDs) = 0
    THEN [todos |-> ts] @@ NoBatch
    ELSE IF v # NilErr
    THEN [todos |-> ts] @@ [NoBatch EXCEPT !.err = Wrap("validation failed", v)]
    ELSE BatchResult(BatchLoop_StopAtFirstError(
            [todos |-> ts, updatedTodos |-> <<>>, errors |-> <<>>],
            userID, todoIDs, input, failPos, 1))

\* BatchUpdateTodos without its up-front validation of the payload
BatchUpdateTodos_NoUpfrontValidation(ts, userID, todoIDs, input, failPos) ==
    IF Len(todoIDs) = 0
    THEN [todos |-> ts] @@ NoBatch
    ELSE BatchResult(BatchLoop(
            [todos |-> ts, updatedTodos |-> <<>>, errors |-> <<>>],
            userID, todoIDs, input, failPos, 1))

\* TodoService.BatchUpdateTodos.  The combined error is built with %s from
\* the per-id messages, so it wraps nothing: err is the bare message and
\* errors holds the "todo <id>: <error>" parts it joins, in order.
BatchUpdateTodos(ts, userID, todoIDs, input, failPos) ==
    LET v == ValidateUpdateInput(input) IN
    IF Len(todoIDs) = 0
    THEN [todos |-> ts] @@ NoBatch
    ELSE IF v # NilErr
    THEN [todos |-> ts] @@ [NoBatch EXCEPT !.err = Wrap("validation failed", v)]
    ELSE BatchResult(BatchLoop(
            [todos |-> ts, updatedTodos |-> <<>>, errors |-> <<>>],
            userID, todoIDs, input, failPos, 1))


-----------------------------------------------------------------------------
(* State machine *)

NoService == NewJWTService("", 0)

\* no token issued yet
NoTok ==
    [jwt |-> NoJWT, by |-> "none", svc |-> NoService, userID |-> 0,
     email |-> "", at |-> 0, expiredSeen |-> FALSE, uses |-> 0, access |-> NoJWT]

NoVCall ==
    [op |-> "none", svc |-> NoService, err |-> NilErr, claims |-> ZeroJWTClaims,
     userID |-> 0, at |-> 0, afterExpired |-> FALSE]

NoACall ==
    [op |-> "none", email |-> "", password |-> "", err |-> NilErr,
     user |-> NoUser, result |-> NoAuthResult, before |-> <<>>, failAt |-> 0,
     token |-> NoTok, at |-> 0]

NoUpdateInput == [Title |-> Nil, Description |-> Nil, Completed |-> Nil]

NoTCall ==
    [layer |-> "none", op |-> "none", todoID |-> 0, userID |-> 0,
     input |-> NoUpdateInput, err |-> NilErr, todo |-> NoTodo, before |-> <<>>,
     failAt |-> 0]

Init ==
    /\ now = 0
    /\ tok = NoTok
    /\ vcall = NoVCall
    /\ users = <<>>
    /\ nextUserID = 1
    /\ acall = NoACall
    /\ todos = <<>>
    /\ nextID = 1
    /\ tcall = NoTCall
    /\ reqs = <<>>
    /\ stamps = <<>>

\* time passes: by one tick near a multiple of the refresh lifetime, or by a
\* whole refresh-token lifetime
Tick ==
    /\ \E step \in {1, RefreshTokenLifetime} :
          /\ now + step <= MaxTime
          /\ step = 1 => (now % RefreshTokenLifetime) < MaxSmallTicks
          /\ now' = now + step
    /\ UNCHANGED <<tokenVars, authVars, todoVars>>

(* calls on a JWTService *)

GenerateTokenCall ==
    \E j \in Services, userID \in UserIDs, email \in Emails :
        /\ tok' = [jwt |-> GenerateToken(j, userID, email, now), by |-> "GenerateToken",
                   svc |-> j, userID |-> userID, email |-> email, at |-> now,
                   expiredSeen |-> FALSE, uses |-> 0, access |-> NoJWT]
        /\ vcall' = [NoVCall EXCEPT !.op = "GenerateToken", !.svc = j, !.at = now]
        /\ UNCHANGED <<now, authVars, todoVars>>

GenerateRefreshTokenCall ==
    \E j \in Services, userID \in UserIDs :
        /\ tok' = [jwt |-> GenerateRefreshToken(j, userID, now),
                   by |-> "GenerateRefreshToken", svc |-> j, userID |-> userID,
                   email |-> "", at |-> now, expiredSeen |-> FALSE, uses |-> 0,
                   access |-> NoJWT]
        /\ vcall' = [NoVCall EXCEPT !.op = "GenerateRefreshToken", !.svc = j, !.at = now]
        /\ UNCHANGED <<now, authVars, todoVars>>

ValidateTokenCall ==
    \E j \in Services :
        LET r == ValidateToken(j, tok.jwt, now) IN
        /\ tok.by # "none"
        /\ vcall' = [op |-> "ValidateToken", svc |-> j, err |-> r.err,
                     claims |-> r.claims, userID |-> 0, at |-> now,
                     afterExpired |-> tok.expiredSeen]
        /\ tok' = [tok EXCEPT !.expiredSeen = @ \/ ErrorsIs(r.err, "ErrTokenExpired")]
        /\ UNCHANGED <<now, authVars, todoVars>>

ValidateRefreshTokenCall ==
    \E j \in Services :
        LET r == ValidateRefreshToken(j, tok.jwt, now) IN
        /\ tok.by # "none"
        /\ vcall' = [op |-> "ValidateRefreshToken", svc |-> j, err |-> r.err,
                     claims |-> ZeroJWTClaims, userID |-> r.userID, at |-> now,
                     afterExpired |-> tok.expiredSeen]
        /\ tok' = [tok EXCEPT !.expiredSeen = @ \/ ErrorsIs(r.err, "ErrTokenExpired")]
        /\ UNCHANGED <<now, authVars, todoVars>>

NextToken ==
    \/ Tick
    \/ GenerateTokenCall
    \/ GenerateRefreshTokenCall
    \/ ValidateTokenCall
    \/ ValidateRefreshTokenCall

SpecToken == Init /\ [][NextToken]_vars


(* calls on the authentication service and the account directory *)

\* a whole refresh-token lifetime passes
TickLong ==
    /\ now + RefreshTokenLifetime <= MaxTime
    /\ now' = now + RefreshTokenLifetime
    /\ UNCHANGED <<tokenVars, authVars, todoVars>>

\* the number of successful refreshes counted on one held token
MaxRefreshes == 1

\* the tokens of an AuthResult, which the client keeps for later calls
Held(result, t) ==
    [jwt |-> result.RefreshToken, by |-> "GenerateRefreshToken", svc |-> AuthJWT,
     userID |-> result.User.ID, email |-> "", at |-> t, expiredSeen |-> FALSE,
     uses |-> 0, access |-> result.Token]

\* the access token of the kept AuthResult
HeldAccess ==
    [tok EXCEPT !.jwt = tok.access, !.by = "GenerateToken"]

\* the store round trips a Register call makes when none of them fails
RegisterRoundTrips(email, password) ==
    IF ValidateRegisterInput(email, password) # NilErr THEN 0
    ELSE IF UsersByEmail(users, email) # {} \/ PasswordLen(password) > 72 THEN 1
    ELSE 2

\* the store round trips a Login call makes when none of them fails
LoginRoundTrips(email, password) ==
    IF ValidateLoginInput(email, password) # NilErr THEN 0
    ELSE IF Authenticate(users, email, password, now, 0).err # NilErr THEN 1
    ELSE 2

RegisterCall ==
    \E email \in RegisterEmails, password \in RegisterPasswords, salt \in Salts,
       failAt \in 0..2 :
        LET r == Register(users, nextUserID, email, password, salt, now, failAt) IN
        /\ failAt <= RegisterRoundTrips(email, password)
        /\ users' = r.users
        /\ nextUserID' = r.seq
        /\ acall' = [op |-> "Register", email |-> email, password |-> password,
                     err |-> r.err, user |-> r.result.User, result |-> r.result,
                     before |-> users, failAt |-> failAt, token |-> NoTok, at |-> now]
        /\ tok' = IF r.err = NilErr THEN Held(r.result, now) ELSE tok
        /\ UNCHANGED <<now, vcall, todoVars>>

LoginCall ==
    \E email \in RegisterEmails, password \in LoginPasswords, failAt \in 0..2 :
        LET r == Login(users, email, password, now, failAt) IN
        /\ failAt <= LoginRoundTrips(email, password)
        /\ users' = r.users
        /\ acall' = [op |-> "Login", email |-> email, password |-> password,
                     err |-> r.err, user |-> r.result.User, result |-> r.result,
                     before |-> users, failAt |-> failAt, token |-> NoTok, at |-> now]
        /\ tok' = IF r.err = NilErr THEN Held(r.result, now) ELSE tok
        /\ UNCHANGED <<now, nextUserID, vcall, todoVars>>

\* the client presents one of the tokens it holds, and afterwards keeps
\* them or replaces them by the pair it gets back
RefreshTokenCall ==
    \E fail \in BOOLEAN, keep \in {"old", "new"}, presented \in {tok, HeldAccess} :
        LET r == RefreshToken(users, presented.jwt, now, fail) IN
        /\ tok.by # "none"
        /\ acall' = [op |-> "RefreshToken", email |-> "", password |-> "",
                     err |-> r.err, user |-> r.result.User, result |-> r.result,
                     before |-> users, failAt |-> IF fail THEN 1 ELSE 0,
                     token |-> presented, at |-> now]
        /\ tok' = IF r.err = NilErr /\ keep # "old" THEN Held(r.result, now)
                  ELSE IF r.err = NilErr /\ presented = tok /\ tok.uses < MaxRefreshes
                  THEN [tok EXCEPT !.uses = @ + 1]
                  ELSE tok
        /\ UNCHANGED <<now, users, nextUserID, vcall, todoVars>>

GetUserFromTokenCall ==
    \E fail \in BOOLEAN, presented \in {tok, HeldAccess} :
        LET r == GetUserFromToken(users, presented.jwt, now, fail) IN
        /\ tok.by # "none"
        /\ acall' = [op |-> "GetUserFromToken", email |-> "", password |-> "",
                     err |-> r.err, user |-> r.user, result |-> NoAuthResult,
                     before |-> users, failAt |-> IF fail THEN 1 ELSE 0,
                     token |-> presented, at |-> now]
        /\ UNCHANGED <<now, users, nextUserID, tokenVars, todoVars>>

NextAuth ==
    \/ TickLong
    \/ RegisterCall
    \/ LoginCall
    \/ RefreshTokenCall
    \/ GetUserFromTokenCall

SpecAuth == Init /\ [][NextAuth]_vars

(* calls on the task service and the task repository *)

\* the number of todos ever created
MaxTodos == 2

\* the callers of the task service: an owner and another user
Callers == {1, 2}

\* the todo ids tried: the invalid ids -1 and 0, every id handed out so far,
\* and the next one, which no todo has had
TodoIDs == -1..nextID

\* the store round trips of UpdateTodo, DeleteTodo and ToggleTodoComplete
\* when none of them fails
MutationRoundTrips(todoID, userID, v) ==
    IF todoID <= 0 \/ v # NilErr THEN 0
    ELSE IF TodoRows(todos, todoID, userID) = {} THEN 1
    ELSE 2

CreateTodoCall ==
    \E userID \in Callers, input \in CreateInputs, fail \in BOOLEAN :
        LET r == CreateTodo(todos, nextID, userID, input, fail)
        IN  /\ nextID <= MaxTodos
            /\ fail => ValidateTodoInput(input) = NilErr
            /\ todos' = r.todos
            /\ stamps' = Restamp(stamps, r.todos, {}, {}, now)
            /\ nextID' = r.seq
            /\ tcall' = [layer |-> "service", op |-> "CreateTodo", todoID |-> 0,
                         userID |-> userID,
                         input |-> [Title |-> input.Title,
                                    Description |-> input.Description,
                                    Completed |-> Nil],
                         err |-> r.err, todo |-> r.todo, before |-> todos,
                         failAt |-> IF fail THEN 1 ELSE 0]
            /\ UNCHANGED <<now, tokenVars, authVars, reqs>>

GetTodoCall ==
    \E todoID \in TodoIDs, userID \in Callers, fail \in BOOLEAN :
        LET r == GetTodo(todos, todoID, userID, fail) IN
        /\ tcall' = [layer |-> "service", op |-> "GetTodo", todoID |-> todoID,
                     userID |-> userID, input |-> NoUpdateInput, err |-> r.err,
                     todo |-> r.todo, before |-> todos,
                     failAt |-> IF fail THEN 1 ELSE 0]
        /\ UNCHANGED <<now, tokenVars, authVars, reqs, stamps, todos, nextID>>

UpdateTodoCall ==
    \E todoID \in TodoIDs, userID \in Callers, input \in UpdateInputs, failAt \in 0..2 :
        LET r == UpdateTodo(todos, todoID, userID, input, failAt) IN
        /\ \/ failAt <= MutationRoundTrips(todoID, userID, ValidateUpdateInput(input))
           \/ todoID <= 0 /\ failAt = 1
        /\ todos' = r.todos
        /\ stamps' = Restamp(stamps, r.todos, UpdateStamps(r, todoID, input),
                             MutatedBy(r, todoID), now)
        /\ tcall' = [layer |-> "service", op |-> "UpdateTodo", todoID |-> todoID,
                     userID |-> userID, input |-> input, err |-> r.err,
                     todo |-> r.todo, before |-> todos, failAt |-> failAt]
        /\ UNCHANGED <<now, tokenVars, authVars, reqs, nextID>>

DeleteTodoCall ==
    \E todoID \in TodoIDs, userID \in Callers, failAt \in 0..2 :
        LET r == DeleteTodo(todos, todoID, userID, failAt) IN
        /\ \/ failAt <= MutationRoundTrips(todoID, userID, NilErr)
           \/ todoID <= 0 /\ failAt = 1
        /\ todos' = r.todos
        /\ stamps' = Restamp(stamps, r.todos, {}, {}, now)
        /\ tcall' = [layer |-> "service", op |-> "DeleteTodo", todoID |-> todoID,
                     userID |-> userID, input |-> NoUpdateInput, err |-> r.err,
                     todo |-> NoTodo, before |-> todos, failAt |-> failAt]
        /\ UNCHANGED <<now, tokenVars, authVars, reqs, nextID>>

ToggleTodoCompleteCall ==
    \E todoID \in TodoIDs, userID \in Callers, failAt \in 0..2 :
        LET r == ToggleTodoComplete(todos, todoID, userID, failAt) IN
        /\ \/ failAt <= MutationRoundTrips(todoID, userID, NilErr)
           \/ todoID <= 0 /\ failAt = 1
        /\ todos' = r.todos
        /\ stamps' = Restamp(stamps, r.todos, ToggleStamps(r, todoID),
                             MutatedBy(r, todoID), now)
        /\ tcall' = [layer |-> "service", op |-> "ToggleTodoComplete",
                     todoID |-> todoID, userID |-> userID, input |-> NoUpdateInput,
                     err |-> r.err, todo |-> r.todo, before |-> todos,
                     failAt |-> failAt]
        /\ UNCHANGED <<now, tokenVars, authVars, reqs, nextID>>

\* one of the repository operations that name a todo by id and owner
RepoCall(op, ts, todoID, userID, input, fail) ==
    CASE op = "GetByID" ->
            [todo |-> TodoGetByID(ts, todoID, userID, fail).todo,
             err |-> TodoGetByID(ts, todoID, userID, fail).err, todos |-> ts]
      [] op = "Update" -> TodoUpdate(ts, todoID, userID, input, fail)
      [] op = "Delete" ->
            [todo |-> NoTodo, err |-> TodoDelete(ts, todoID, userID, fail).err,
             todos |-> TodoDelete(ts, todoID, userID, fail).todos]
      [] op = "ToggleComplete" -> TodoToggleComplete(ts, todoID, userID, fail)

RepoOps == {"GetByID", "Update", "Delete", "ToggleComplete"}

\* the UpdateTodoInput values handed to the repository directly: no field,
\* and a new title
RepoUpdateInputs ==
    {NoUpdateInput, [Title |-> "u", Description |-> Nil, Completed |-> Nil]}

\* a caller of the repository other than the task service, answered by
\* the store
RepositoryCall ==
    \E op \in RepoOps, todoID \in 1..nextID, userID \in Callers :
      \E input \in IF op = "Update" THEN RepoUpdateInputs ELSE {NoUpdateInput} :
        LET r == RepoCall(op, todos, todoID, userID, input, FALSE) IN
        /\ todos' = r.todos
        /\ stamps' = Restamp(stamps, r.todos,
                             IF op = "ToggleComplete" THEN ToggleStamps(r, todoID) ELSE {},
                             IF op = "ToggleComplete" THEN MutatedBy(r, todoID) ELSE {},
                             now)
        /\ tcall' = [layer |-> "repository", op |-> op, todoID |-> todoID,
                     userID |-> userID, input |-> input, err |-> r.err,
                     todo |-> r.todo, before |-> todos, failAt |-> 0]
        /\ UNCHANGED <<now, tokenVars, authVars, reqs, nextID>>

NextTodo ==
    \/ CreateTodoCall
    \/ GetTodoCall
    \/ UpdateTodoCall
    \/ DeleteTodoCall
    \/ ToggleTodoCompleteCall
    \/ RepositoryCall

SpecTodo == Init /\ [][NextTodo]_vars

-----------------------------------------------------------------------------
(* listing calls on the task service and the task repository *)

Min(a, b) == IF a < b THEN a ELSE b
Max(a, b) == IF a > b THEN a ELSE b

\* the filters handed to GetUserTodos and to GetByUserID
MaxLimit == 2
MaxOffset == 1
ListSearches == {NoSearch, SearchOf(<<"T">>), SearchOf(<<"u">>)}
ListFilters ==
    [Completed : {Nil, "true"}, Search : ListSearches,
     Limit : 0..MaxLimit, Offset : 0..MaxOffset]

Unfiltered(filter) ==
    /\ filter.Completed = Nil
    /\ filter.Search.isNil

\* the todos of userID in ts
OwnedBy(ts, userID) == {id \in DOMAIN ts : ts[id].UserID = userID}

\* a create without a store failure, to fill the table
CreateForListing ==
    \E userID \in Callers, input \in CreateInputs :
        LET r == CreateTodo(todos, nextID, userID, input, FALSE)
        IN  /\ nextID <= MaxTodos
            /\ ValidateTodoInput(input) = NilErr
            /\ todos' = r.todos
            /\ stamps' = Restamp(stamps, r.todos, {}, {}, now)
            /\ nextID' = r.seq
            /\ tcall' = [layer |-> "service", op |-> "CreateTodo", userID |-> userID,
                         err |-> r.err, before |-> todos, failAt |-> 0]
            /\ UNCHANGED <<now, tokenVars, authVars, reqs>>

GetUserTodosCall ==
    \E userID \in Callers, filter \in ListFilters, failAt \in 0..1 :
        LET r == GetUserTodos(todos, userID, filter, failAt) IN
        /\ failAt = 1 => Unfiltered(filter) /\ filter.Limit = 0 /\ filter.Offset = 0
        /\ tcall' = [layer |-> "service", op |-> "GetUserTodos", userID |-> userID,
                     filter |-> filter, err |-> r.err, list |-> r.list,
                     before |-> todos, failAt |-> failAt]
        /\ UNCHANGED <<now, tokenVars, authVars, reqs, stamps, todos, nextID>>

\* a caller of the repository other than the task service, whose filter is
\* not normalised
GetByUserIDCall ==
    \E userID \in Callers, filter \in ListFilters :
        LET r == GetByUserID(todos, userID, filter, 0) IN
        /\ tcall' = [layer |-> "repository", op |-> "GetByUserID", userID |-> userID,
                     filter |-> filter, err |-> r.err, list |-> r.list,
                     before |-> todos, failAt |-> 0]
        /\ UNCHANGED <<now, tokenVars, authVars, reqs, stamps, todos, nextID>>

GetUserTodoStatsCall ==
    \E userID \in Callers, failAt \in 0..1 :
        LET r == GetUserTodoStats(todos, userID, failAt) IN
        /\ tcall' = [layer |-> "service", op |-> "GetUserTodoStats", userID |-> userID,
                     err |-> r.err, stats |-> r.stats,
                     before |-> todos, failAt |-> failAt]
        /\ UNCHANGED <<now, tokenVars, authVars, reqs, stamps, todos, nextID>>

NextList ==
    \/ CreateForListing
    \/ GetUserTodosCall
    \/ GetByUserIDCall
    \/ GetUserTodoStatsCall

SpecList == Init /\ [][NextList]_vars

-----------------------------------------------------------------------------
(* batch calls on the task service *)

\* the id lists tried: empty, one id, two ids in either order, an invalid id
\* first, a repeated id, and an id no todo has had between two others
BatchIDLists == {<<>>, <<1>>, <<1, 2>>, <<2, 1>>, <<0, 1>>, <<1, 1>>, <<1, 9, 2>>}

BatchUpdateTodosCall ==
    \E userID \in Callers, todoIDs \in BatchIDLists, input \in UpdateInputs :
      \E failPos \in 0..Len(todoIDs) :
        LET r == BatchUpdateTodos(todos, userID, todoIDs, input, failPos) IN
        /\ todos' = r.todos
        /\ stamps' = Restamp(stamps, r.todos, {},
                             {r.updatedTodos[i].ID : i \in 1..Len(r.updatedTodos)}, now)
        /\ tcall' = [layer |-> "service", op |-> "BatchUpdateTodos", userID |-> userID,
                     todoIDs |-> todoIDs, input |-> input, failPos |-> failPos,
                     updatedTodos |-> r.updatedTodos, errors |-> r.errors,
                     err |-> r.err, before |-> todos]
        /\ UNCHANGED <<now, tokenVars, authVars, reqs, nextID>>

NextBatch ==
    \/ CreateForListing
    \/ BatchUpdateTodosCall

SpecBatch == Init /\ [][NextBatch]_vars

-----------------------------------------------------------------------------
(* requests running concurrently on the task service: each store round trip
   of a request is one step, and the store runs one statement at a time *)

MaxRequests == 3

\* a ToggleTodoComplete request before its first round trip
NewToggle(todoID, userID) ==
    [op |-> "ToggleTodoComplete", todoID |-> todoID, userID |-> userID,
     pc |-> "GetByID", read |-> NoTodo, todo |-> NoTodo, err |-> NilErr]

\* ToggleTodoComplete up to the answer of its ownership read
ToggleCheck(ts, r) ==
    LET g == TodoGetByID(ts, r.todoID, r.userID, FALSE) IN
    IF r.todoID <= 0
    THEN [r EXCEPT !.pc = "done", !.err = Sentinel("ErrInvalidTodoInput")]
    ELSE IF g.err # NilErr
    THEN [r EXCEPT !.pc = "done",
                   !.err = IF ErrEq(g.err, "ErrTodoNotFound")
                           THEN Sentinel("ErrTodoAccessDenied")
                           ELSE Wrap("failed to verity todo ownership", g.err)]
    ELSE [r EXCEPT !.pc = "ToggleComplete", !.read = g.todo]

\* a toggle that writes the negation of the flag its ownership read returned
ToggleWrite_FromReadValue(ts, r) ==
    LET rows == TodoRows(ts, r.todoID, r.userID)
        after == [id \in DOMAIN ts |->
                    IF id \in rows
                    THEN [ts[id] EXCEPT !.Completed = NotBool(r.read.Completed)]
                    ELSE ts[id]]
    IN  IF rows = {}
        THEN [req |-> [r EXCEPT !.pc = "done",
                                !.err = Wrap("failed to toggle complete todo", PgxErrNoRows)],
              todos |-> ts]
        ELSE [req |-> [r EXCEPT !.pc = "done", !.todo = after[r.todoID]], todos |-> after]

\* ToggleTodoComplete from its ToggleComplete statement to its return
ToggleWrite(ts, r) ==
    LET x == TodoToggleComplete(ts, r.todoID, r.userID, FALSE) IN
    IF x.err # NilErr
    THEN [req |-> [r EXCEPT !.pc = "done",
                            !.err = Wrap("failed to toggle complete todo", x.err)],
          todos |-> x.todos]
    ELSE [req |-> [r EXCEPT !.pc = "done", !.todo = x.todo], todos |-> x.todos]

\* todos are created before the requests start
CreateBeforeRequests ==
    /\ reqs = <<>>
    /\ CreateForListing

\* a request arrives for the todo the running requests are about
StartToggle ==
    \E todoID \in DOMAIN todos, userID \in Callers :
        /\ Len(reqs) < MaxRequests
        /\ \A i \in 1..Len(reqs) : reqs[i].todoID = todoID
        /\ reqs' = Append(reqs, NewToggle(todoID, userID))
        /\ UNCHANGED <<now, tokenVars, authVars, stamps, todos, nextID, tcall>>

ToggleCheckStep ==
    \E i \in 1..Len(reqs) :
        /\ reqs[i].pc = "GetByID"
        /\ reqs' = [reqs EXCEPT ![i] = ToggleCheck(todos, reqs[i])]
        /\ UNCHANGED <<now, tokenVars, authVars, stamps, todos, nextID, tcall>>

ToggleWriteStep ==
    \E i \in 1..Len(reqs) :
        LET w == ToggleWrite(todos, reqs[i]) IN
        /\ reqs[i].pc = "ToggleComplete"
        /\ reqs' = [reqs EXCEPT ![i] = w.req]
        /\ todos' = w.todos
        /\ stamps' = Restamp(stamps, w.todos, ToggleStamps(w.req, reqs[i].todoID),
                             MutatedBy(w.req, reqs[i].todoID), now)
        /\ UNCHANGED <<now, tokenVars, authVars, nextID, tcall>>

NextToggle ==
    \/ CreateBeforeRequests
    \/ StartToggle
    \/ ToggleCheckStep
    \/ ToggleWriteStep

SpecToggle == Init /\ [][NextToggle]_vars

-----------------------------------------------------------------------------
(* DeleteTodo, UpdateTodo and ToggleTodoComplete requests of the owner
   running concurrently on one todo *)

\* the repository statement a service operation runs after its ownership read
StatementOf(op) ==
    CASE op = "UpdateTodo" -> "Update"
      [] op = "DeleteTodo" -> "Delete"
      [] OTHER -> "ToggleComplete"

\* the message the operation wraps a failed ownership read in
OwnershipMessage(op) ==
    CASE op = "UpdateTodo" -> "failed to validate todo ownership"
      [] op = "DeleteTodo" -> "failed to verify todo ownership"
      [] OTHER -> "failed to verity todo ownership"

\* the message the operation wraps a failed statement in
StatementMessage(op) ==
    CASE op = "UpdateTodo" -> "failed to update todo"
      [] op = "DeleteTodo" -> "failed to delete todo"
      [] OTHER -> "failed to toggle complete todo"

\* a request before its first round trip; late records whether the row was
\* already gone when the request ran its last statement
NewMutation(op, todoID, userID, input) ==
    [op |-> op, todoID |-> todoID, userID |-> userID, input |-> input,
     pc |-> "GetByID", late |-> FALSE, todo |-> NoTodo, err |-> NilErr]

\* the operation up to the answer of its ownership read
MutationCheck(ts, r) ==
    LET v == IF r.op = "UpdateTodo" THEN ValidateUpdateInput(r.input) ELSE NilErr
        g == TodoGetByID(ts, r.todoID, r.userID, FALSE)
    IN  IF r.todoID <= 0
        THEN [r EXCEPT !.pc = "done", !.err = Sentinel("ErrInvalidTodoInput")]
        ELSE IF v # NilErr
        THEN [r EXCEPT !.pc = "done", !.err = Wrap("validation failed", v)]
        ELSE IF g.err # NilErr
        THEN [r EXCEPT !.pc = "done", !.late = r.todoID \notin DOMAIN ts,
                       !.err = IF ErrEq(g.err, "ErrTodoNotFound")
                               THEN Sentinel("ErrTodoAccessDenied")
                               ELSE Wrap(OwnershipMessage(r.op), g.err)]
        ELSE [r EXCEPT !.pc = StatementOf(r.op)]

\* the operation from its statement to its return
MutationWrite(ts, r) ==
    LET x == RepoCall(StatementOf(r.op), ts, r.todoID, r.userID, r.input, FALSE) IN
    IF x.err # NilErr
    THEN [req |-> [r EXCEPT !.pc = "done", !.late = r.todoID \notin DOMAIN ts,
                            !.err = Wrap(StatementMessage(r.op), x.err)],
          todos |-> x.todos]
    ELSE [req |-> [r EXCEPT !.pc = "done", !.late = r.todoID \notin DOMAIN ts,
                            !.todo = x.todo],
          todos |-> x.todos]

\* a request of the owner arrives for the todo the running requests are about
StartMutation ==
    \E todoID \in DOMAIN todos, op \in {"UpdateTodo", "DeleteTodo", "ToggleTodoComplete"} :
      \E input \in IF op = "UpdateTodo" THEN RepoUpdateInputs \ {NoUpdateInput}
                    ELSE {NoUpdateInput} :
        /\ Len(reqs) < MaxRequests
        /\ \A i \in 1..Len(reqs) : reqs[i].todoID = todoID
        /\ reqs' = Append(reqs, NewMutation(op, todoID, todos[todoID].UserID, input))
        /\ UNCHANGED <<now, tokenVars, authVars, stamps, todos, nextID, tcall>>

MutationCheckStep ==
    \E i \in 1..Len(reqs) :
        /\ reqs[i].pc = "GetByID"
        /\ reqs' = [reqs EXCEPT ![i] = MutationCheck(todos, reqs[i])]
        /\ UNCHANGED <<now, tokenVars, authVars, stamps, todos, nextID, tcall>>

MutationWriteStep ==
    \E i \in 1..Len(reqs) :
        LET w == MutationWrite(todos, reqs[i])
            toggled == IF reqs[i].op = "ToggleTodoComplete"
                       THEN MutatedBy(w.req, reqs[i].todoID) ELSE {}
        IN  /\ reqs[i].pc \notin {"GetByID", "done"}
            /\ reqs' = [reqs EXCEPT ![i] = w.req]
            /\ todos' = w.todos
            /\ stamps' = Restamp(stamps, w.todos, toggled, toggled, now)
            /\ UNCHANGED <<now, tokenVars, authVars, nextID, tcall>>

NextRace ==
    \/ CreateBeforeRequests
    \/ StartMutation
    \/ MutationCheckStep
    \/ MutationWriteStep

SpecRace == Init /\ [][NextRace]_vars

-----------------------------------------------------------------------------
(* GetUserTodoStats running while statements of other requests change the
   table between its three reads *)

MaxStatsRequests == 1

\* a GetUserTodoStats request before its first read
NewStats(userID) ==
    [op |-> "GetUserTodoStats", userID |-> userID, pc |-> "CountByUserID",
     stats |-> [Total |-> 0, Completed |-> 0, Pending |-> 0], err |-> NilErr]

\* the next read of GetUserTodoStats: the count, the completed todos, the
\* pending todos
StatsRead(ts, r) ==
    LET total == CountByUserID(ts, r.userID, FALSE)
        flag == IF r.pc = "GetByUserID completed" THEN "true" ELSE "false"
        listed == GetByUserID(ts, r.userID,
                      [Completed |-> flag, Search |-> NoSearch, Limit |-> 0, Offset |-> 0],
                      0)
    IN  IF r.pc = "CountByUserID"
        THEN [r EXCEPT !.pc = "GetByUserID completed", !.stats.Total = total.count]
        ELSE IF r.pc = "GetByUserID completed"
        THEN IF listed.err # NilErr
             THEN [r EXCEPT !.pc = "done",
                            !.err = Wrap("failed to count completed todos", listed.err)]
             ELSE [r EXCEPT !.pc = "GetByUserID pending",
                            !.stats.Completed = Len(listed.list.Todos)]
        ELSE IF listed.err # NilErr
        THEN [r EXCEPT !.pc = "done",
                       !.err = Wrap("failed to count pending todos", listed.err)]
        ELSE [r EXCEPT !.pc = "done", !.stats.Pending = Len(listed.list.Todos)]

\* a statement of another request runs on the store: the INSERT of a
\* create, or the statement of a delete, a toggle or an update by the owner
ConcurrentStatement ==
    \/ \E userID \in Callers :
          LET c == TodoCreate(todos, nextID, userID, [Title |-> "t", Description |-> "d"],
                              FALSE)
          IN  /\ nextID <= MaxTodos
              /\ todos' = c.todos
              /\ nextID' = c.seq
              /\ stamps' = Restamp(stamps, c.todos, {}, {}, now)
              /\ UNCHANGED <<now, tokenVars, authVars, reqs, tcall>>
    \/ \E todoID \in DOMAIN todos, op \in {"Delete", "ToggleComplete", "Update"} :
          LET x == RepoCall(op, todos, todoID, todos[todoID].UserID,
                            [Title |-> "u", Description |-> Nil, Completed |-> Nil], FALSE)
              toggled == IF op = "ToggleComplete" THEN MutatedBy(x, todoID) ELSE {}
          IN  /\ todos' = x.todos
              /\ stamps' = Restamp(stamps, x.todos, toggled, toggled, now)
              /\ UNCHANGED <<now, tokenVars, authVars, reqs, nextID, tcall>>

StartStats ==
    \E userID \in Callers :
        /\ Len(reqs) < MaxStatsRequests
        /\ reqs' = Append(reqs, NewStats(userID))
        /\ UNCHANGED <<now, tokenVars, authVars, stamps, todos, nextID, tcall>>

StatsReadStep ==
    \E i \in 1..Len(reqs) :
        /\ reqs[i].pc # "done"
        /\ reqs' = [reqs EXCEPT ![i] = StatsRead(todos, reqs[i])]
        /\ UNCHANGED <<now, tokenVars, authVars, stamps, todos, nextID, tcall>>

NextStats ==
    \/ ConcurrentStatement
    \/ StartStats
    \/ StatsReadStep

SpecStats == Init /\ [][NextStats]_vars

-----------------------------------------------------------------------------
(* Register requests running concurrently: the EmailExists query and the
   INSERT of UserRepository.Create are two statements, and statements of
   other requests may run between them *)

\* a Register request before its first round trip; fresh records whether
\* the table had no account with the email when the request arrived
NewRegister(us, email, password) ==
    [op |-> "Register", email |-> email, password |-> password,
     pc |-> "EmailExists", fresh |-> UsersByEmail(us, email) = {},
     user |-> NoUser, err |-> NilErr]

\* Register up to the point where Create sends its INSERT
RegisterCheck(us, r) ==
    LET v == ValidateRegisterInput(r.email, r.password)
        ex == EmailExists(us, r.email, FALSE)
        h == HashPassword(r.password, "salt-1")
    IN  IF v # NilErr
        THEN [r EXCEPT !.pc = "done", !.err = Wrap("validation failed", v)]
        ELSE IF ex.exists
        THEN [r EXCEPT !.pc = "done",
                       !.err = Wrap("registration failed", Sentinel("ErrEmailExits"))]
        ELSE IF h.err # NilErr
        THEN [r EXCEPT !.pc = "done", !.err = Wrap("failed to create user", h.err)]
        ELSE [r EXCEPT !.pc = "INSERT"]

\* Register from the INSERT of Create to its return: the UNIQUE constraint
\* on users(email) rejects a second row, and Create returns that error as is
RegisterInsert(us, seq, r, salt) ==
    LET row == [ID |-> seq, Email |-> r.email,
                PasswordHash |-> HashPassword(r.password, salt).hash,
                LastLoginAt |-> -1]
    IN  IF UsersByEmail(us, r.email) # {}
        THEN [req |-> [r EXCEPT !.pc = "done",
                                !.err = Wrap("failed to create user", UniqueViolation)],
              users |-> us, seq |-> seq + 1]
        ELSE [req |-> [r EXCEPT !.pc = "done", !.user = row],
              users |-> (seq :> row) @@ us, seq |-> seq + 1]

StartRegister ==
    \E email \in Emails :
        /\ Len(reqs) < MaxRequests
        /\ reqs' = Append(reqs, NewRegister(users, email, "Password1234"))
        /\ UNCHANGED <<now, tokenVars, authVars, stamps, todos, nextID, tcall>>

RegisterCheckStep ==
    \E i \in 1..Len(reqs) :
        /\ reqs[i].pc = "EmailExists"
        /\ reqs' = [reqs EXCEPT ![i] = RegisterCheck(users, reqs[i])]
        /\ UNCHANGED <<now, tokenVars, authVars, stamps, todos, nextID, tcall>>

RegisterInsertStep ==
    \E i \in 1..Len(reqs), salt \in Salts :
        LET w == RegisterInsert(users, nextUserID, reqs[i], salt) IN
        /\ reqs[i].pc = "INSERT"
        /\ reqs' = [reqs EXCEPT ![i] = w.req]
        /\ users' = w.users
        /\ nextUserID' = w.seq
        /\ UNCHANGED <<now, tokenVars, acall, stamps, todos, nextID, tcall>>

NextRegister ==
    \/ StartRegister
    \/ RegisterCheckStep
    \/ RegisterInsertStep

SpecRegister == Init /\ [][NextRegister]_vars

-----------------------------------------------------------------------------
(* mutations by the owner while time passes *)

MaxClock == 2

ClockTick ==
    /\ now < MaxClock
    /\ now' = now + 1
    /\ UNCHANGED <<tokenVars, authVars, todoVars>>

\* a toggle or an update of a todo by its owner, answered by the store
OwnerMutationCall ==
    \E todoID \in DOMAIN todos, op \in {"ToggleTodoComplete", "UpdateTodo"} :
      \E input \in IF op = "UpdateTodo" THEN RepoUpdateInputs \ {NoUpdateInput}
                    ELSE {NoUpdateInput} :
        LET userID == todos[todoID].UserID
            r == IF op = "UpdateTodo"
                 THEN UpdateTodo(todos, todoID, userID, input, 0)
                 ELSE ToggleTodoComplete(todos, todoID, userID, 0)
        IN  /\ todos' = r.todos
            /\ stamps' = Restamp(stamps, r.todos,
                                 IF op = "UpdateTodo" THEN UpdateStamps(r, todoID, input)
                                 ELSE ToggleStamps(r, todoID),
                                 MutatedBy(r, todoID), now)
            /\ tcall' = [layer |-> "service", op |-> op, todoID |-> todoID,
                         userID |-> userID, input |-> input, err |-> r.err,
                         todo |-> r.todo, before |-> todos, failAt |-> 0]
            /\ UNCHANGED <<now, tokenVars, authVars, reqs, nextID>>

NextStamps ==
    \/ ClockTick
    \/ CreateForListing
    \/ OwnerMutationCall

SpecStamps == Init /\ [][NextStamps]_vars

-----------------------------------------------------------------------------
(* filters on their way from GetUserTodos to the repository *)

MaxSearchLen == 3
SearchAlphabet == {" ", "t"}
SearchStrings == UNION {[1..n -> SearchAlphabet] : n \in 0..MaxSearchLen}

\* limits and offsets around the clamping thresholds
RawLimits == {-1, 0, 1, 20, 100, 101}
RawOffsets == {-1, 0, 1}

RawFilters ==
    [Completed : {Nil, "true"},
     Search : {NoSearch} \cup {SearchOf(chars) : chars \in SearchStrings},
     Limit : RawLimits, Offset : RawOffsets]

\* GetUserTodos up to its repository call: the filter given and the filter
\* handed to GetByUserID
NormalizeFilterCall ==
    \E filter \in RawFilters :
        /\ tcall' = [layer |-> "service", op |-> "normalizeFilter",
                     filter |-> filter, normalized |-> normalizeFilter(filter)]
        /\ UNCHANGED <<now, tokenVars, authVars, reqs, stamps, todos, nextID>>

NextFilter == NormalizeFilterCall

SpecFilter == Init /\ [][NextFilter]_vars

-----------------------------------------------------------------------------
(* Claims about the Token Service, checked under SpecToken *)

\* the last call validated, as an access token, the token the client holds
ValidatedAs(op, by) == vcall.op = op /\ tok.by = by

\* the expires-at instant carried by the held token
HeldExp == tok.jwt.payload.exp

\* C3: ValidateToken rejects every token produced by GenerateRefreshToken,
\* also under the issuing secret and before the token expires.
C3_RefreshTokenRejectedAsAccess ==
    ValidatedAs("ValidateToken", "GenerateRefreshToken") => vcall.err # NilErr

\* C4: ValidateRefreshToken rejects every token produced by GenerateToken.
C4_AccessTokenRejectedAsRefresh ==
    ValidatedAs("ValidateRefreshToken", "GenerateToken") => vcall.err # NilErr

\* C5: validating, with the issuing secret and before expiry, the token
\* GenerateToken(userID, email) returned succeeds and yields claims with that
\* user id, that email and the issuer "todo-app".
C5_AccessTokenRoundTrip ==
    (/\ ValidatedAs("ValidateToken", "GenerateToken")
     /\ vcall.svc.secretKey = tok.svc.secretKey
     /\ vcall.at < HeldExp)
    => /\ vcall.err = NilErr
       /\ vcall.claims.UserID = tok.userID
       /\ vcall.claims.Email = tok.email
       /\ vcall.claims.Issuer = "todo-app"

C5_Witness ==
    /\ ValidatedAs("ValidateToken", "GenerateToken")
    /\ vcall.svc.secretKey = tok.svc.secretKey
    /\ vcall.at < HeldExp
    /\ vcall.at > tok.at
    /\ vcall.claims.UserID = 2
    /\ vcall.claims.Email = "b@x.io"

\* C6: an access token signed under secret A is rejected by ValidateToken of
\* a service configured with a different secret B.
C6_WrongSecretRejected ==
    (/\ ValidatedAs("ValidateToken", "GenerateToken")
     /\ vcall.svc.secretKey # tok.svc.secretKey)
    => ErrorsIs(vcall.err, "ErrTokenSignatureInvalid")

C6_Witness ==
    /\ ValidatedAs("ValidateToken", "GenerateToken")
    /\ vcall.svc.secretKey # tok.svc.secretKey
    /\ vcall.at < HeldExp
    /\ vcall.err # NilErr

\* C7 as stated: an access token issued at t with lifetime d is accepted at
\* every time in [t, t+d], rejected as expired at every later time, and never
\* accepted after an expiry rejection.
C7_AcceptedThroughLifetime ==
    (/\ ValidatedAs("ValidateToken", "GenerateToken")
     /\ vcall.svc.secretKey = tok.svc.secretKey)
    => /\ vcall.at <= tok.at + tok.svc.expiryHours => vcall.err = NilErr
       /\ vcall.at > tok.at + tok.svc.expiryHours
             => ErrorsIs(vcall.err, "ErrTokenExpired")
       /\ vcall.afterExpired => vcall.err # NilErr

\* C7 amended: with e the instant t+d truncated to a whole second, the token
\* is accepted at every time in [t, e), rejected as expired at every time
\* from e on, and never accepted after an expiry rejection.
C7_AcceptedUntilTruncatedExpiry ==
    (/\ ValidatedAs("ValidateToken", "GenerateToken")
     /\ vcall.svc.secretKey = tok.svc.secretKey)
    => LET e == (tok.at + tok.svc.expiryHours)
                  - ((tok.at + tok.svc.expiryHours) % TicksPerSecond) IN
       /\ vcall.at < e => vcall.err = NilErr
       /\ vcall.at >= e => ErrorsIs(vcall.err, "ErrTokenExpired")
       /\ vcall.afterExpired => ErrorsIs(vcall.err, "ErrTokenExpired")

C7_Witness ==
    /\ ValidatedAs("ValidateToken", "GenerateToken")
    /\ vcall.svc.secretKey = tok.svc.secretKey
    /\ vcall.at <= tok.at + tok.svc.expiryHours
    /\ vcall.afterExpired
    /\ ErrorsIs(vcall.err, "ErrTokenExpired")


-----------------------------------------------------------------------------
(* Claims about registration, login and refresh, checked under SpecAuth *)

\* the last call was op, and every store round trip it made was answered
AuthCalled(op) == acall.op = op /\ acall.failAt = 0

\* the account the last call's email had before the call, if any
ExistingBefore == UsersByEmail(acall.before, acall.email)

\* id, email and password hash of every account are what they were before
AccountsKept ==
    /\ DOMAIN users = DOMAIN acall.before
    /\ \A id \in DOMAIN users :
          /\ users[id].ID = acall.before[id].ID
          /\ users[id].Email = acall.before[id].Email
          /\ users[id].PasswordHash = acall.before[id].PasswordHash

NoSharedEmail ==
    \A a, b \in DOMAIN users : users[a].Email = users[b].Email => a = b

\* C8 as stated: no two accounts share an email, and every Register with an
\* email that already has an account fails with the email-already-exists
\* error, creates no account and leaves the existing accounts unchanged.
C8_DuplicateRegisterFailsEmailExists ==
    /\ NoSharedEmail
    /\ (AuthCalled("Register") /\ ExistingBefore # {})
          => /\ ErrorsIs(acall.err, "ErrEmailExits")
             /\ AccountsKept

\* C8 amended: no two accounts share an email; a Register whose password
\* passes validation, and every UserRepository.Create, with an email that
\* already has an account fails with the email-already-exists error, and
\* every Register with such an email creates no account and leaves the
\* id, email and password hash of the existing accounts unchanged.
C8_ValidDuplicateRegisterFailsEmailExists ==
    /\ NoSharedEmail
    /\ (AuthCalled("Register") /\ ExistingBefore # {})
          => /\ IsValidPassword(acall.password) => ErrorsIs(acall.err, "ErrEmailExits")
             /\ acall.err # NilErr
             /\ AccountsKept
    /\ \A id \in DOMAIN users, password \in RegisterPasswords, salt \in Salts :
          LET c == UserCreate(users, nextUserID,
                              [Email |-> users[id].Email, Password |-> password],
                              salt, 0)
          IN  c.err = Sentinel("ErrEmailExits") /\ c.users = users

C8_Witness ==
    /\ AuthCalled("Register")
    /\ ExistingBefore # {}
    /\ IsValidPassword(acall.password)
    /\ Cardinality(DOMAIN users) = 2
    /\ acall.err = <<"registration failed", "ErrEmailExits">>

\* Authenticate answers ErrInvalidCredentials, and nothing else, whenever it
\* fails, and it fails for every email without account
AuthenticateAmbiguous ==
    \A email \in RegisterEmails, password \in LoginPasswords \cup RegisterPasswords :
        LET a == Authenticate(users, email, password, now, 0) IN
        /\ UsersByEmail(users, email) = {} => a.err = Sentinel("ErrInvalidCredentials")
        /\ a.err # NilErr => a.err = Sentinel("ErrInvalidCredentials")

\* C9 as stated: Authenticate and Login return the identical
\* InvalidCredentials error for an email with no account, whatever the
\* password, and for an existing email with a wrong password.
C9_FailedLoginIsInvalidCredentials ==
    /\ AuthenticateAmbiguous
    /\ (AuthCalled("Login") /\ acall.err # NilErr)
          => acall.err = <<"authentication failed", "ErrInvalidCredentials">>

\* C9 amended: Authenticate returns the identical InvalidCredentials error
\* in both failure cases; Login returns it, wrapped the same way, in both
\* cases when email and password are non-empty, and with an empty email or
\* password fails validation with an error that does not depend on the
\* stored accounts.
C9_NonEmptyFailedLoginIsInvalidCredentials ==
    /\ AuthenticateAmbiguous
    /\ (AuthCalled("Login") /\ acall.err # NilErr)
          => IF ValidateLoginInput(acall.email, acall.password) = NilErr
             THEN acall.err = <<"authentication failed", "ErrInvalidCredentials">>
             ELSE /\ acall.err = Wrap("validation failed",
                                      ValidateLoginInput(acall.email, acall.password))
                  /\ acall.err = Login(<<>>, acall.email, acall.password, now, 0).err

\* both failure cases have been seen: the last Login named an email without
\* account while another account exists whose password was not matched
C9_Witness ==
    /\ AuthCalled("Login")
    /\ acall.email # ""
    /\ acall.password = "password123"
    /\ ExistingBefore = {}
    /\ acall.err = <<"authentication failed", "ErrInvalidCredentials">>
    /\ \E id \in DOMAIN users :
          Login(users, users[id].Email, "password123", now, 0).err = acall.err

\* the instants at which a held refresh token is tried again
RefreshInstants ==
    {tok.at, tok.at + 1, tok.at + AccessTokenLifetime,
     TruncateToSecond(tok.at + RefreshTokenLifetime) - 1}

\* the last call presented a refresh token that GenerateRefreshToken issued
\* less than the refresh lifetime ago to an account that exists
PresentedLiveRefreshToken ==
    /\ AuthCalled("RefreshToken")
    /\ acall.token.by = "GenerateRefreshToken"
    /\ acall.at < TruncateToSecond(acall.token.at + RefreshTokenLifetime)
    /\ acall.token.userID \in DOMAIN users

\* C10: RefreshToken with an unexpired refresh token of an existing account
\* succeeds with a pair issued for that account at the time of the call,
\* however often that same token was used before, and the token still
\* refreshes at every later instant before its expiry.
C10_RefreshTokenReusable ==
    /\ PresentedLiveRefreshToken
       => /\ acall.err = NilErr
          /\ acall.result.User = users[acall.token.userID]
          /\ acall.result.Token.payload.sub = Itoa(acall.token.userID)
          /\ acall.result.Token.payload.iat = TruncateToSecond(acall.at)
          /\ acall.result.RefreshToken.payload.sub = Itoa(acall.token.userID)
          /\ acall.result.RefreshToken.payload.exp
                = TruncateToSecond(acall.at + RefreshTokenLifetime)
    /\ (tok.by = "GenerateRefreshToken" /\ tok.uses > 0)
       => \A t \in RefreshInstants :
             RefreshToken(users, tok.jwt, t, FALSE).err = NilErr

C10_Witness ==
    /\ PresentedLiveRefreshToken
    /\ acall.token.uses = MaxRefreshes
    /\ acall.err = NilErr

\* C26: after a Login whose last-login update the store carried out, the
\* account's last_login_at is the time of the call, and the user record the
\* call returned carries that same, non-null, last_login_at.
C26_LoginReturnsLastLogin ==
    ( /\ acall.op = "Login"
      /\ acall.err = NilErr
      /\ acall.failAt = 0 )
    => /\ acall.user.ID \in DOMAIN users
       /\ users[acall.user.ID].LastLoginAt = acall.at
       /\ acall.user.LastLoginAt # -1
       /\ acall.user.LastLoginAt = users[acall.user.ID].LastLoginAt

-----------------------------------------------------------------------------
(* Claims about todos, checked under SpecTodo *)

\* the last call named a todo that was stored under another owner
OnOthersTodo ==
    /\ tcall.todoID \in DOMAIN tcall.before
    /\ tcall.before[tcall.todoID].UserID # tcall.userID

\* C1: when user B calls the Task Service on the id of a todo owned by A,
\* GetTodo fails with NotFound, UpdateTodo, DeleteTodo and ToggleTodoComplete
\* fail with AccessDenied, and none of them returns A's record.
C1_OtherOwnersTodoIsHidden ==
    (/\ tcall.layer = "service"
     /\ OnOthersTodo
     /\ tcall.failAt = 0
     /\ tcall.op = "UpdateTodo" => ValidateUpdateInput(tcall.input) = NilErr)
    => /\ tcall.op = "GetTodo" => ErrorsIs(tcall.err, "ErrTodoNotFound")
       /\ tcall.op \in {"UpdateTodo", "DeleteTodo", "ToggleTodoComplete"}
             => ErrorsIs(tcall.err, "ErrTodoAccessDenied")
       /\ tcall.todo = NoTodo

\* C2: GetByID, Update, Delete and ToggleComplete called with the id of a
\* todo of another owner give the outcome they give for an id that no todo
\* has, and leave every stored todo as it was.
C2_OtherOwnersIdIsMissingId ==
    (tcall.layer = "repository" /\ OnOthersTodo)
    => LET missing == RepoCall(tcall.op, tcall.before, nextID, tcall.userID,
                               tcall.input, FALSE)
       IN  /\ tcall.err = missing.err
           /\ tcall.todo = missing.todo
           /\ todos = tcall.before
           /\ missing.todos = tcall.before

C2_Witness ==
    /\ tcall.layer = "repository"
    /\ OnOthersTodo
    /\ tcall.op = "Delete"
    /\ tcall.failAt = 0
    /\ tcall.err = Sentinel("ErrTodoNotFound")
    /\ Cardinality(DOMAIN todos) = 2

\* a service call on a todo that ended without error
Succeeded(op) ==
    /\ tcall.layer = "service"
    /\ tcall.op = op
    /\ tcall.err = NilErr

\* C16: a successful ToggleTodoComplete by the owner returns and stores the
\* negation of the todo's previous completed flag and changes nothing else,
\* in this todo or another; a second toggle right after it restores the
\* table as it was.
C16_ToggleIsFlip ==
    Succeeded("ToggleTodoComplete") =>
        /\ tcall.todoID \in DOMAIN tcall.before
        /\ LET old == tcall.before[tcall.todoID]
               again == ToggleTodoComplete(todos, tcall.todoID, tcall.userID, 0)
           IN  /\ old.UserID = tcall.userID
               /\ DOMAIN todos = DOMAIN tcall.before
               /\ tcall.todo = todos[tcall.todoID]
               /\ (tcall.todo.Completed = "true") <=> (old.Completed = "false")
               /\ tcall.todo.Completed \in {"true", "false"}
               /\ tcall.todo = [old EXCEPT !.Completed = tcall.todo.Completed]
               /\ \A id \in DOMAIN todos \ {tcall.todoID} : todos[id] = tcall.before[id]
               /\ again.err = NilErr
               /\ again.todos = tcall.before
               /\ again.todo = old

\* the second of two toggles: a completed todo is pending again
C16_Witness ==
    /\ Succeeded("ToggleTodoComplete")
    /\ tcall.before[tcall.todoID].Completed = "true"
    /\ todos[tcall.todoID].Completed = "false"
    /\ tcall.todo.Completed = "false"

\* C19: GetTodo, UpdateTodo, DeleteTodo and ToggleTodoComplete called with
\* todoID <= 0 fail with InvalidInput whatever the store would answer (also
\* while it is failing), return no todo and change no todo.
C19_NonPositiveIdIsInvalidInput ==
    ( /\ tcall.layer = "service"
      /\ tcall.op \in {"GetTodo", "UpdateTodo", "DeleteTodo", "ToggleTodoComplete"}
      /\ tcall.todoID <= 0 )
    => /\ tcall.err = Sentinel("ErrInvalidTodoInput")
       /\ tcall.todo = NoTodo
       /\ todos = tcall.before

\* GetTodo with id -1 while the store is failing and the table is not empty
C19_Witness ==
    /\ tcall.layer = "service"
    /\ tcall.op = "GetTodo"
    /\ tcall.todoID = -1
    /\ tcall.failAt = 1
    /\ DOMAIN tcall.before # {}
    /\ tcall.err = Sentinel("ErrInvalidTodoInput")

\* the store failed the first round trip of the call: the insert of
\* CreateTodo, or the ownership read of UpdateTodo, DeleteTodo or
\* ToggleTodoComplete
StoreFailedFirstTrip ==
    /\ tcall.layer = "service"
    /\ tcall.failAt = 1
    /\ \/ tcall.op = "CreateTodo"
       \/ /\ tcall.op \in {"UpdateTodo", "DeleteTodo", "ToggleTodoComplete"}
          /\ tcall.todoID > 0

\* C20: when the store fails (not with not-found) during CreateTodo or
\* during the ownership read of UpdateTodo, DeleteTodo or ToggleTodoComplete,
\* the call returns an error wrapping the store's error, never AccessDenied
\* or NotFound; nothing is tried again, so no todo is returned, added or
\* changed although a second attempt would have been answered.
C20_StoreFailureIsWrapped ==
    StoreFailedFirstTrip =>
        /\ Len(tcall.err) > Len(DBError)
        /\ SubSeq(tcall.err, Len(tcall.err) - Len(DBError) + 1, Len(tcall.err)) = DBError
        /\ ~ErrorsIs(tcall.err, "ErrTodoAccessDenied")
        /\ ~ErrorsIs(tcall.err, "ErrTodoNotFound")
        /\ tcall.todo = NoTodo
        /\ todos = tcall.before
        /\ tcall.op = "CreateTodo" => DOMAIN todos = DOMAIN tcall.before

\* the store fails the ownership read of a toggle by the todo's owner
C20_Witness ==
    /\ StoreFailedFirstTrip
    /\ tcall.op = "ToggleTodoComplete"
    /\ tcall.todoID \in OwnedBy(tcall.before, tcall.userID)
    /\ tcall.err = Wrap("failed to verity todo ownership",
                        Wrap("failed to get todo", DBError))
    /\ todos = tcall.before

\* an UpdateTodo by the todo's owner with a payload the validator accepts,
\* answered by the store
OwnerUpdate ==
    /\ tcall.layer = "service"
    /\ tcall.op = "UpdateTodo"
    /\ tcall.failAt = 0
    /\ tcall.todoID \in OwnedBy(tcall.before, tcall.userID)
    /\ tcall.input \in {[Title |-> "u", Description |-> Nil, Completed |-> Nil],
                        [Title |-> Nil, Description |-> "e", Completed |-> "true"]}

\* C21: an update by the owner succeeds and changes exactly the supplied
\* fields: each of title, description and completed present in the input is
\* set to the supplied value, each absent one keeps its value, id and owner
\* stay, no other todo is modified, and the returned todo is the stored one.
C21_UpdateSetsSuppliedFields ==
    OwnerUpdate =>
        /\ tcall.err = NilErr
        /\ DOMAIN todos = DOMAIN tcall.before
        /\ LET old == tcall.before[tcall.todoID]
               new == todos[tcall.todoID]
           IN  /\ tcall.todo = new
               /\ new.ID = old.ID
               /\ new.UserID = old.UserID
               /\ new.Title = IF tcall.input.Title # Nil
                              THEN tcall.input.Title ELSE old.Title
               /\ new.Description = IF tcall.input.Description # Nil
                                    THEN tcall.input.Description ELSE old.Description
               /\ new.Completed = IF tcall.input.Completed # Nil
                                  THEN tcall.input.Completed ELSE old.Completed
        /\ \A id \in DOMAIN todos \ {tcall.todoID} : todos[id] = tcall.before[id]

\* C23: the repository's Update with at least one field supplied, on an id
\* that does not exist or belongs to another user, returns ErrTodoNotFound,
\* the error GetByID, Delete and ToggleComplete return for that id, and no
\* generic storage failure.
C23_UpdateOfMissingIdIsNotFound ==
    ( /\ tcall.layer = "repository"
      /\ tcall.op = "Update"
      /\ tcall.input # NoUpdateInput
      /\ TodoRows(tcall.before, tcall.todoID, tcall.userID) = {} )
    => /\ tcall.err = Sentinel("ErrTodoNotFound")
       /\ TodoGetByID(tcall.before, tcall.todoID, tcall.userID, FALSE).err = tcall.err
       /\ TodoDelete(tcall.before, tcall.todoID, tcall.userID, FALSE).err = tcall.err
       /\ TodoToggleComplete(tcall.before, tcall.todoID, tcall.userID, FALSE).err
             = tcall.err
       /\ todos = tcall.before

\* C24: CreateTodo with an input the validator accepts, answered by the
\* store, succeeds: it stores and returns a todo owned by the caller, with
\* the input's title and description, completed = false and a positive id
\* that no other todo has; a get by the owner then returns the same values.
C24_CreateStoresAndReturnsTodo ==
    ( /\ tcall.layer = "service"
      /\ tcall.op = "CreateTodo"
      /\ tcall.failAt = 0
      /\ ValidateTodoInput(tcall.input) = NilErr )
    => /\ tcall.err = NilErr
       /\ tcall.todo.UserID = tcall.userID
       /\ tcall.todo.Title = tcall.input.Title
       /\ tcall.todo.Description = tcall.input.Description
       /\ tcall.todo.Completed = "false"
       /\ tcall.todo.ID > 0
       /\ tcall.todo.ID \notin DOMAIN tcall.before
       /\ DOMAIN todos = DOMAIN tcall.before \cup {tcall.todo.ID}
       /\ todos[tcall.todo.ID] = tcall.todo
       /\ GetTodo(todos, tcall.todo.ID, tcall.userID, FALSE) =
             [todo |-> tcall.todo, err |-> NilErr]

\* C25: a successful DeleteTodo by the owner is a hard delete: the row is
\* gone from the table (and so from the owner's rows), the owner's count is
\* one less, every other row is unchanged, and GetTodo on that id then
\* returns ErrTodoNotFound for every user.
C25_DeleteIsHardDelete ==
    ( /\ tcall.layer = "service"
      /\ tcall.op = "DeleteTodo"
      /\ tcall.err = NilErr )
    => /\ tcall.todoID \in DOMAIN tcall.before
       /\ tcall.before[tcall.todoID].UserID = tcall.userID
       /\ DOMAIN todos = DOMAIN tcall.before \ {tcall.todoID}
       /\ \A id \in DOMAIN todos : todos[id] = tcall.before[id]
       /\ CountByUserID(todos, tcall.userID, FALSE).count =
             CountByUserID(tcall.before, tcall.userID, FALSE).count - 1
       /\ \A userID \in Callers :
             ErrorsIs(GetTodo(todos, tcall.todoID, userID, FALSE).err,
                      "ErrTodoNotFound")

\* C30: every step leaves each row with the id it is stored under and one
\* owner, unique among the rows; a row that stays keeps its id and its
\* owner; and a new row gets an id that no row, present or deleted, has had:
\* all ids handed out so far lie below the sequence, which never goes back.
C30_IdentityIsStable ==
    [][ /\ \A id \in DOMAIN todos' :
              /\ todos'[id].ID = id
              /\ todos'[id].UserID \in Callers
              /\ id > 0
              /\ id < nextID'
        /\ \A id \in DOMAIN todos \cap DOMAIN todos' :
              /\ todos'[id].ID = todos[id].ID
              /\ todos'[id].UserID = todos[id].UserID
        /\ \A id \in DOMAIN todos' \ DOMAIN todos : id >= nextID
        /\ nextID' >= nextID ]_vars

\* a todo created into a table from which the todo with id 1 had been
\* deleted: the new todo has id 2
C30_Witness ==
    /\ tcall.op = "CreateTodo"
    /\ tcall.layer = "service"
    /\ DOMAIN tcall.before = {}
    /\ DOMAIN todos = {2}
    /\ todos[2].ID = 2

-----------------------------------------------------------------------------
(* Claims about listing and statistics, checked under SpecList *)

\* a list call that no store failure was injected into
Listed(layer) ==
    /\ tcall.op = IF layer = "service" THEN "GetUserTodos" ELSE "GetByUserID"
    /\ tcall.layer = layer
    /\ tcall.failAt = 0

\* C11: an unfiltered GetUserTodos with limit L in 1..100 and offset O >= 0
\* for a user with N todos returns exactly min(L, max(0, N - O)) items, a
\* total of N, and hasMore exactly when O + returned < N.
C11_UnfilteredPage ==
    ( /\ Listed("service")
      /\ Unfiltered(tcall.filter)
      /\ tcall.filter.Limit \in 1..100
      /\ tcall.filter.Offset >= 0 )
    => LET N == Cardinality(OwnedBy(tcall.before, tcall.userID))
           L == tcall.filter.Limit
           O == tcall.filter.Offset
           returned == Len(tcall.list.Todos)
       IN  /\ tcall.err = NilErr
           /\ returned = Min(L, Max(0, N - O))
           /\ tcall.list.Total = N
           /\ tcall.list.HasMore <=> (O + returned < N)

\* the todos of userID in ts that a filter asks for
Matching(ts, userID, filter) ==
    {id \in OwnedBy(ts, userID) :
        /\ filter.Completed # Nil => ts[id].Completed = filter.Completed
        /\ (~filter.Search.isNil /\ filter.Search.chars # <<>>) =>
              \/ ILike(ts[id].Title, filter.Search.chars)
              \/ ILike(ts[id].Description, filter.Search.chars)}

\* C12: a listing with a completed or search filter reports as total the
\* user's full unfiltered count, and hasMore exactly when todos matching the
\* filter remain beyond offset + returned items.
C12_FilteredPage ==
    ( /\ tcall.op \in {"GetUserTodos", "GetByUserID"}
      /\ tcall.failAt = 0
      /\ ~Unfiltered(tcall.filter) )
    => LET matching == Cardinality(Matching(tcall.before, tcall.userID, tcall.filter))
           returned == Len(tcall.list.Todos)
       IN  /\ tcall.err = NilErr
           /\ tcall.list.Total = Cardinality(OwnedBy(tcall.before, tcall.userID))
           /\ tcall.list.HasMore <=> (tcall.filter.Offset + returned < matching)

\* the part of C12 that the completed clause and the pagination clause do
\* not mask: a search through the repository with no limit and no offset
C12_SearchHasMore ==
    ( /\ Listed("repository")
      /\ tcall.err = NilErr
      /\ ~Unfiltered(tcall.filter) )
    => LET matching == Cardinality(Matching(tcall.before, tcall.userID, tcall.filter))
       IN  tcall.list.HasMore <=> (tcall.filter.Offset + Len(tcall.list.Todos) < matching)

\* C18: with the store answering, GetUserTodoStats returns as total the
\* number of the user's todos, as completed the number of those with
\* completed = true and as pending the number with completed = false, and
\* counts no todo of another user.
C18_StatsCountOwnTodos ==
    ( /\ tcall.op = "GetUserTodoStats"
      /\ tcall.failAt = 0 )
    => LET own == OwnedBy(tcall.before, tcall.userID) IN
       /\ tcall.err = NilErr
       /\ tcall.stats.Total = Cardinality(own)
       /\ tcall.stats.Completed =
             Cardinality({id \in own : tcall.before[id].Completed = "true"})
       /\ tcall.stats.Pending =
             Cardinality({id \in own : tcall.before[id].Completed = "false"})

-----------------------------------------------------------------------------
(* Claims about timestamps, checked under SpecStamps *)

-----------------------------------------------------------------------------
(* Claims about concurrent requests, checked under SpecToggle *)

\* the requests on todo id that returned without error
Toggled(id) ==
    {i \in 1..Len(reqs) :
        /\ reqs[i].op = "ToggleTodoComplete"
        /\ reqs[i].todoID = id
        /\ reqs[i].pc = "done"
        /\ reqs[i].err = NilErr}

\* every request has returned
AllDone == \A i \in 1..Len(reqs) : reqs[i].pc = "done"

\* C17: under every interleaving of n concurrent ToggleTodoComplete requests
\* by the owner on one todo, no toggle is lost: once all have returned, all
\* have succeeded and the flag is the initial flag (false, as created)
\* flipped n times; the flags they returned are the alternation true, false,
\* true, ... that writes run one after the other produce.
C17_NoToggleLost ==
    \A id \in DOMAIN todos :
        LET owners == {i \in 1..Len(reqs) :
                          reqs[i].todoID = id /\ reqs[i].userID = todos[id].UserID}
            n == Cardinality(owners)
            returnedTrue == {i \in Toggled(id) : reqs[i].todo.Completed = "true"}
        IN  AllDone =>
              /\ Toggled(id) = owners
              /\ todos[id].Completed = IF n % 2 = 0 THEN "false" ELSE "true"
              /\ Cardinality(returnedTrue) = (n + 1) \div 2

\* two owner requests whose ownership reads both ran before either write,
\* both returned
C17_Witness ==
    /\ AllDone
    /\ \E id \in DOMAIN todos :
          /\ Cardinality(Toggled(id)) >= 2
          /\ \E i, j \in Toggled(id) :
                /\ i # j
                /\ reqs[i].read.Completed = "false"
                /\ reqs[j].read.Completed = "false"
                /\ reqs[i].todo.Completed # reqs[j].todo.Completed
          /\ todos[id].Completed = "false"

-----------------------------------------------------------------------------
(* Claims about concurrent mutations of one todo, checked under SpecRace *)

\* C28: of the owner's concurrent requests on one todo, every one whose
\* last statement ran when the row was already deleted fails with
\* ErrTodoAccessDenied itself, whether or not its ownership read ran before
\* the delete, and at most one DeleteTodo succeeds.
C28_AbsenceIsAccessDenied ==
    /\ \A i \in 1..Len(reqs) :
          (reqs[i].pc = "done" /\ reqs[i].late)
          => reqs[i].err = Sentinel("ErrTodoAccessDenied")
    /\ Cardinality({i \in 1..Len(reqs) :
                       /\ reqs[i].op = "DeleteTodo"
                       /\ reqs[i].pc = "done"
                       /\ reqs[i].err = NilErr}) <= 1

-----------------------------------------------------------------------------
(* Claims about statistics read concurrently, checked under SpecStats *)

\* C29: every GetUserTodoStats request the store has answered returned a
\* TodoStats value, and in it completed + pending = total, whatever creates,
\* deletes, toggles and updates ran between its three reads.
C29_StatsAddUp ==
    \A i \in 1..Len(reqs) :
        reqs[i].pc = "done"
        => /\ reqs[i].err = NilErr
           /\ reqs[i].stats.Completed + reqs[i].stats.Pending = reqs[i].stats.Total

-----------------------------------------------------------------------------
(* Claims about concurrent registrations, checked under SpecRegister *)

\* the Register requests for email that arrived while no account had it
FreshRegisters(email) ==
    {i \in 1..Len(reqs) : reqs[i].email = email /\ reqs[i].fresh}

\* C27: when the Register requests that arrived for one valid email while
\* no account had it have all returned, and two or more of them there were,
\* then exactly one succeeded, each of the others failed with
\* ErrEmailExits, and exactly one account has the email.
C27_RegisterRace ==
    \A email \in Emails :
        ( /\ Cardinality(FreshRegisters(email)) >= 2
          /\ \A i \in FreshRegisters(email) : reqs[i].pc = "done" )
        => /\ Cardinality({i \in FreshRegisters(email) : reqs[i].err = NilErr}) = 1
           /\ \A i \in FreshRegisters(email) :
                 reqs[i].err # NilErr => ErrorsIs(reqs[i].err, "ErrEmailExits")
           /\ Cardinality(UsersByEmail(users, email)) = 1

-----------------------------------------------------------------------------
(* Claims about filter normalisation, checked under SpecFilter *)

\* chars is whitespace only (the empty string included)
AllSpace(chars) == \A i \in 1..Len(chars) : IsSpace(chars[i])

\* inner is outer without its leading and trailing whitespace
TrimmedFrom(inner, outer) ==
    /\ inner # <<>>
    /\ ~IsSpace(inner[1])
    /\ ~IsSpace(inner[Len(inner)])
    /\ \E i \in 1..Len(outer) :
          /\ SubSeq(outer, i, i + Len(inner) - 1) = inner
          /\ AllSpace(SubSeq(outer, 1, i - 1))
          /\ AllSpace(SubSeq(outer, i + Len(inner), Len(outer)))

\* C13: the filter handed to the repository has limit 20 for a given limit
\* <= 0, 100 for one above 100, else the given limit; offset 0 for a negative
\* offset, else the given offset; the search trimmed, and no search for an
\* empty or all-whitespace one; the completed filter unchanged.  So its limit
\* is in 1..100 and its offset is >= 0.
C13_FilterNormalized ==
    tcall.op = "normalizeFilter" =>
        LET f == tcall.filter
            n == tcall.normalized
        IN  /\ n.Limit = IF f.Limit <= 0 THEN 20
                         ELSE IF f.Limit > 100 THEN 100 ELSE f.Limit
            /\ n.Offset = IF f.Offset < 0 THEN 0 ELSE f.Offset
            /\ f.Search.isNil => n.Search.isNil
            /\ (~f.Search.isNil /\ AllSpace(f.Search.chars)) => n.Search.isNil
            /\ (~f.Search.isNil /\ ~AllSpace(f.Search.chars)) =>
                  /\ ~n.Search.isNil
                  /\ TrimmedFrom(n.Search.chars, f.Search.chars)
            /\ n.Completed = f.Completed
            /\ n.Limit \in 1..100
            /\ n.Offset >= 0

\* a filter with every field out of range: limit above 100, negative offset,
\* search padded with whitespace
C13_Witness ==
    /\ tcall.op = "normalizeFilter"
    /\ tcall.filter.Limit > 100
    /\ tcall.filter.Offset < 0
    /\ tcall.filter.Search = SearchOf(<<" ", "t", " ">>)
    /\ tcall.filter.Completed = "true"
    /\ tcall.normalized =
          [Completed |-> "true", Search |-> SearchOf(<<"t">>), Limit |-> 100, Offset |-> 0]

-----------------------------------------------------------------------------
(* Claims about batch updates, checked under SpecBatch *)

\* the table after the first k ids of a batch were attempted one by one
RECURSIVE TableAfter(_, _, _, _, _, _)
TableAfter(ts, userID, todoIDs, input, failPos, k) ==
    IF k = 0 THEN ts
    ELSE UpdateTodo(TableAfter(ts, userID, todoIDs, input, failPos, k - 1),
                    todoIDs[k], userID, input, IF k = failPos THEN 1 ELSE 0).todos

\* the outcome of the k-th id of a batch, attempted on its own after the
\* ids before it
Attempt(ts, userID, todoIDs, input, failPos, k) ==
    UpdateTodo(TableAfter(ts, userID, todoIDs, input, failPos, k - 1),
               todoIDs[k], userID, input, IF k = failPos THEN 1 ELSE 0)

BatchCalled(valid) ==
    /\ tcall.op = "BatchUpdateTodos"
    /\ Len(tcall.todoIDs) > 0
    /\ (tcall.input \in {[Title |-> "u", Description |-> Nil, Completed |-> Nil],
                         [Title |-> Nil, Description |-> "e", Completed |-> "true"]})
          <=> valid

C15_InvalidBatchFailsFast ==
    BatchCalled(FALSE) =>
        /\ tcall.err # NilErr
        /\ tcall.err[1] = "validation failed"
        /\ tcall.err[Len(tcall.err)] \in
              {"ErrInvalidTodoInput", "ErrTodoTitleRequired", "ErrTodoTitleTooLong",
               "ErrTodoDescriptionTooLong"}
        /\ tcall.updatedTodos = <<>>
        /\ tcall.errors = <<>>
        /\ todos = tcall.before

\* an invalid batch over existing todos of the caller while the store fails
C15_Witness ==
    /\ BatchCalled(FALSE)
    /\ tcall.todoIDs = <<1, 2>>
    /\ tcall.failPos = 1
    /\ {1, 2} \subseteq OwnedBy(tcall.before, tcall.userID)
    /\ tcall.input.Title = ""
    /\ tcall.err[1] = "validation failed"

=============================================================================
